---- MODULE Spec2Model ----
(***************************************************************************)
(* Model of the teleparser blob decoder (src/tblob.py): the signature      *)
(* registry tdss_callbacks, the primitive codecs tstring / tbytes / tbool, *)
(* a number of record decoders and the dispatcher tblob.parse_blob.        *)
(*                                                                         *)
(* Encoding of values:                                                     *)
(*  - a byte buffer is a sequence of integers 0..255;                      *)
(*  - an unsigned 32-bit integer is the pair <<hi, lo>> of its 16-bit      *)
(*    halves (the integers of TLC are 32-bit signed, a tag such as         *)
(*    0xdeadbeef does not fit), a 64-bit one the pair of its 32-bit halves *)
(*    <<high word, low word>>;                                             *)
(*  - Python None is <<>> where a value of sequence or record type may     *)
(*    stand, and a present optional value v is <<v>>; None is the string   *)
(*    "None" where the other values are strings;                           *)
(*  - a construct Container is a record of its public and private fields.  *)
(***************************************************************************)
EXTENDS Integers, Sequences, FiniteSets, TLC

VARIABLES callbacks, op, data, outcome, ref, teledb

vars == <<callbacks, op, data, outcome, ref, teledb>>

(***************************************************************************)
(* tblob.tdss_callbacks: the items of the dictionary literal, in source    *)
(* order, as <<signature, blob_tuple>>.  A decoder is named by its method  *)
(* name.  Entries are copied with the number of components they have in    *)
(* the source.                                                             *)
(***************************************************************************)
tdss_callbacks_items ==
  {
    <<<<47312, 45023>>, <<"None", "account_days_ttl", "None">>>>,
    <<<<59138, 31892>>, <<"None", "account_accept_authorization", "None">>>>,
    <<<<44334, 7384>>, <<"None", "account_authorization_form", "None">>>>,
    <<<<4688, 43998>>, <<"None", "account_authorizations", "None">>>>,
    <<<<25546, 53030>>, <<"None", "account_auto_download_settings", "None">>>>,
    <<<<49611, 54710>>, <<"None", "account_cancel_password_email", "None">>>>,
    <<<<28867, 11995>>, <<"None", "account_change_phone", "None">>>>,
    <<<<10004, 55404>>, <<"None", "account_check_username", "None">>>>,
    <<<<36831, 6432>>, <<"None", "account_confirm_password_email", "None">>>>,
    <<<<24353, 30915>>, <<"None", "account_confirm_phone", "None">>>>,
    <<<<33842, 49695>>, <<"None", "account_create_theme", "None">>>>,
    <<<<16781, 19979>>, <<"None", "account_delete_account", "None">>>>,
    <<<<47232, 48203>>, <<"None", "account_delete_secure_value", "None">>>>,
    <<<<2300, 28957>>, <<"None", "account_get_account_ttl", "None">>>>,
    <<<<45704, 48253>>, <<"None", "account_get_all_secure_values", "None">>>>,
    <<<<47211, 43233>>, <<"None", "account_get_authorization_form", "None">>>>,
    <<<<58144, 49496>>, <<"None", "account_get_authorizations", "None">>>>,
    <<<<22234, 2879>>, <<"None", "account_get_auto_download_settings", "None">>>>,
    <<<<40711, 50984>>, <<"None", "account_get_contact_sign_up_notification", "None">>>>,
    <<<<60203, 19702>>, <<"None", "account_get_global_privacy_settings", "None">>>>,
    <<<<26029, 29148>>, <<"None", "account_get_multi_wall_papers", "None">>>>,
    <<<<21335, 29817>>, <<"None", "account_get_notify_exceptions", "None">>>>,
    <<<<4787, 44337>>, <<"None", "account_get_notify_settings", "None">>>>,
    <<<<21642, 12533>>, <<"None", "account_get_password", "None">>>>,
    <<<<40148, 60153>>, <<"None", "account_get_password_settings", "None">>>>,
    <<<<56027, 51536>>, <<"None", "account_get_privacy", "None">>>>,
    <<<<29542, 23490>>, <<"None", "account_get_secure_value", "None">>>>,
    <<<<36253, 29739>>, <<"None", "account_get_theme", "None">>>>,
    <<<<10329, 18168>>, <<"None", "account_get_themes", "None">>>>,
    <<<<17566, 2897>>, <<"None", "account_get_tmp_password", "None">>>>,
    <<<<64653, 56298>>, <<"None", "account_get_wall_paper", "None">>>>,
    <<<<43707, 5987>>, <<"None", "account_get_wall_papers", "None">>>>,
    <<<<49228, 64194>>, <<"None", "account_get_wall_papers_v_0_1_317">>>>,
    <<<<6190, 28015>>, <<"None", "account_get_web_authorizations", "None">>>>,
    <<<<31460, 14135>>, <<"None", "account_install_theme", "None">>>>,
    <<<<65261, 22377>>, <<"None", "account_install_wall_paper", "None">>>>,
    <<<<44326, 16888>>, <<"None", "account_password", "None">>>>,
    <<<<49719, 10185>>, <<"None", "account_password_input_settings", "None">>>>,
    <<<<39516, 13285>>, <<"None", "account_password_settings", "None">>>>,
    <<<<20640, 20037>>, <<"None", "account_privacy_rules", "None">>>>,
    <<<<26775, 27759>>, <<"None", "account_register_device", "None">>>>,
    <<<<21834, 47983>>, <<"None", "account_privacy_rules_v_5_6_2", "None">>>>,
    <<<<17516, 28972>>, <<"None", "account_register_device_v_0_1_317", "None">>>>,
    <<<<23742, 42384>>, <<"None", "account_register_device_v_5_6_2", "None">>>>,
    <<<<44568, 40287>>, <<"None", "account_report_peer", "None">>>>,
    <<<<31359, 10773>>, <<"None", "account_resend_password_email", "None">>>>,
    <<<<57207, 62396>>, <<"None", "account_reset_authorization", "None">>>>,
    <<<<56190, 5959>>, <<"None", "account_reset_notify_settings", "None">>>>,
    <<<<47931, 38916>>, <<"None", "account_reset_wall_papers", "None">>>>,
    <<<<11521, 47599>>, <<"None", "account_reset_web_authorization", "None">>>>,
    <<<<26669, 9620>>, <<"None", "account_reset_web_authorizations", "None">>>>,
    <<<<30451, 25139>>, <<"None", "account_save_auto_download_settings", "None">>>>,
    <<<<35231, 58141>>, <<"None", "account_save_secure_value", "None">>>>,
    <<<<62039, 4204>>, <<"None", "account_save_theme", "None">>>>,
    <<<<27738, 23351>>, <<"None", "account_save_wall_paper", "None">>>>,
    <<<<33367, 19173>>, <<"None", "account_send_change_phone_code", "None">>>>,
    <<<<6975, 43656>>, <<"None", "account_send_confirm_phone_code", "None">>>>,
    <<<<28689, 20639>>, <<"None", "account_send_verify_email_code", "None">>>>,
    <<<<42403, 22265>>, <<"None", "account_send_verify_phone_code", "None">>>>,
    <<<<33055, 34127>>, <<"None", "account_sent_email_code", "None">>>>,
    <<<<9282, 18526>>, <<"None", "account_set_account_ttl", "None">>>>,
    <<<<53236, 16225>>, <<"None", "account_set_contact_sign_up_notification", "None">>>>,
    <<<<7898, 43714>>, <<"None", "account_set_global_privacy_settings", "None">>>>,
    <<<<51704, 7400>>, <<"None", "account_set_privacy", "None">>>>,
    <<<<32615, 25633>>, <<"None", "account_themes", "None">>>>,
    <<<<62494, 46626>>, <<"None", "account_themes_not_modified", "None">>>>,
    <<<<56164, 64820>>, <<"None", "account_tmp_password", "None">>>>,
    <<<<12406, 50367>>, <<"None", "account_unregister_device", "None">>>>,
    <<<<26053, 23360>>, <<"None", "account_unregister_device_v_0_1_317">>>>,
    <<<<14559, 13618>>, <<"None", "account_update_device_locked", "None">>>>,
    <<<<33982, 23443>>, <<"None", "account_update_notify_settings", "None">>>>,
    <<<<42395, 4143>>, <<"None", "account_update_password_settings", "None">>>>,
    <<<<30801, 22389>>, <<"None", "account_update_profile", "None">>>>,
    <<<<61576, 36200>>, <<"None", "account_update_profile_v_0_1_317">>>>,
    <<<<26152, 22060>>, <<"None", "account_update_status", "None">>>>,
    <<<<23731, 26581>>, <<"None", "account_update_theme", "None">>>>,
    <<<<15883, 56700>>, <<"None", "account_update_username", "None">>>>,
    <<<<7229, 45875>>, <<"None", "account_upload_theme", "None">>>>,
    <<<<56709, 13921>>, <<"None", "account_upload_wall_paper", "None">>>>,
    <<<<60602, 14811>>, <<"None", "account_verify_email", "None">>>>,
    <<<<19923, 42998>>, <<"None", "account_verify_phone", "None">>>>,
    <<<<28715, 26025>>, <<"None", "account_wall_papers", "None">>>>,
    <<<<7193, 37251>>, <<"None", "account_wall_papers_not_modified", "None">>>>,
    <<<<60758, 51708>>, <<"None", "account_web_authorizations", "None">>>>,
    <<<<22633, 35032>>, <<"audio_empty_layer45_struct", "audio_empty_layer45", "None">>>>,
    <<<<21845, 22006>>, <<"audio_encrypted_struct", "audio_encrypted", "None">>>>,
    <<<<63971, 20565>>, <<"audio_layer45_struct", "audio_layer45", "None">>>>,
    <<<<17012, 9703>>, <<"audio_old_struct", "audio_old", "None">>>>,
    <<<<51116, 25750>>, <<"audio_old2_struct", "audio_old2", "None">>>>,
    <<<<59540, 44365>>, <<"None", "auth_accept_login_token", "None">>>>,
    <<<<52485, 2326>>, <<"None", "auth_authorization", "None">>>>,
    <<<<17524, 32410>>, <<"None", "auth_authorization_sign_up_required", "None">>>>,
    <<<<63158, 29604>>, <<"None", "auth_authorization_v_0_1_317">>>>,
    <<<<7940, 1400>>, <<"None", "auth_cancel_code", "None">>>>,
    <<<<53643, 19734>>, <<"None", "auth_check_password", "None">>>>,
    <<<<28645, 7675>>, <<"None", "auth_check_phone_v_5_6_2", "None">>>>,
    <<<<33054, 41614>>, <<"None", "auth_checked_phone_v_5_6_2", "None">>>>,
    <<<<58112, 52283>>, <<"None", "auth_checked_phone_v_0_1_317">>>>,
    <<<<29724, 54243>>, <<"None", "auth_code_type_call", "None">>>>,
    <<<<8812, 52987>>, <<"None", "auth_code_type_flash_call", "None">>>>,
    <<<<29347, 5516>>, <<"None", "auth_code_type_sms", "None">>>>,
    <<<<58815, 65485>>, <<"None", "auth_export_authorization", "None">>>>,
    <<<<57238, 39981>>, <<"None", "auth_exported_authorization", "None">>>>,
    <<<<45492, 5399>>, <<"None", "auth_export_login_token", "None">>>>,
    <<<<58351, 38419>>, <<"None", "auth_import_authorization", "None">>>>,
    <<<<38316, 23780>>, <<"None", "auth_import_login_token", "None">>>>,
    <<<<22295, 55872>>, <<"None", "auth_log_out", "None">>>>,
    <<<<25247, 6528>>, <<"None", "auth_login_token", "None">>>>,
    <<<<1678, 39190>>, <<"None", "auth_login_token_migrate_to", "None">>>>,
    <<<<14605, 23646>>, <<"None", "auth_login_token_success", "None">>>>,
    <<<<4985, 18597>>, <<"None", "auth_password_recovery", "None">>>>,
    <<<<20133, 28306>>, <<"None", "auth_recover_password", "None">>>>,
    <<<<55447, 48230>>, <<"None", "auth_request_password_recovery", "None">>>>,
    <<<<16113, 43455>>, <<"None", "auth_resend_code", "None">>>>,
    <<<<40875, 3354>>, <<"None", "auth_reset_authorizations", "None">>>>,
    <<<<965, 5476>>, <<"None", "auth_send_call_v_0_1_317">>>>,
    <<<<42615, 9295>>, <<"None", "auth_send_code", "None">>>>,
    <<<<30349, 24397>>, <<"None", "auth_send_code_v_0_1_317">>>>,
    <<<<30492, 7575>>, <<"None", "auth_send_invites_v_0_1_317">>>>,
    <<<<24064, 9474>>, <<"None", "auth_sent_code", "None">>>>,
    <<<<14586, 43871>>, <<"None", "auth_sent_code_v_5_6_2", "None">>>>,
    <<<<8725, 48317>>, <<"None", "auth_sent_code_v_0_1_317">>>>,
    <<<<15803, 22918>>, <<"None", "auth_sent_code_type_app", "None">>>>,
    <<<<21331, 58791>>, <<"None", "auth_sent_code_type_call", "None">>>>,
    <<<<43779, 50905>>, <<"None", "auth_sent_code_type_flash_call", "None">>>>,
    <<<<49152, 48034>>, <<"None", "auth_sent_code_type_sms", "None">>>>,
    <<<<48341, 5505>>, <<"None", "auth_sign_in", "None">>>>,
    <<<<33006, 58407>>, <<"None", "auth_sign_up", "None">>>>,
    <<<<6918, 30260>>, <<"None", "auth_sign_up_v_5_6_2", "None">>>>,
    <<<<44289, 54813>>, <<"None", "authorization", "None">>>>,
    <<<<57410, 13043>>, <<"None", "auto_download_settings", "None">>>>,
    <<<<53830, 64839>>, <<"None", "auto_download_settings_v_5_6_2", "None">>>>,
    <<<<42991, 63505>>, <<"None", "bad_msg_notification_v_0_1_317">>>>,
    <<<<60843, 17531>>, <<"None", "bad_server_salt_v_0_1_317">>>>,
    <<<<62824, 650>>, <<"None", "bank_card_open_url", "None">>>>,
    <<<<23313, 4698>>, <<"base_theme_arctic_struct", "base_theme_arctic", "None">>>>,
    <<<<50081, 9314>>, <<"base_theme_classic_struct", "base_theme_classic", "None">>>>,
    <<<<64472, 5768>>, <<"base_theme_day_struct", "base_theme_day", "None">>>>,
    <<<<47027, 7848>>, <<"base_theme_night_struct", "base_theme_night", "None">>>>,
    <<<<27999, 30702>>, <<"base_theme_tinted_struct", "base_theme_tinted", "None">>>>,
    <<<<48249, 38711>>, <<"None", "bool_false", "None">>>>,
    <<<<39282, 30133>>, <<"None", "bool_true", "None">>>>,
    <<<<49786, 51399>>, <<"bot_command_struct", "bot_command", "None">>>>,
    <<<<39144, 7482>>, <<"bot_info_struct", "bot_info", "None">>>>,
    <<<<47918, 14286>>, <<"bot_info_empty_layer48_struct", "bot_info_empty_layer48", "None">>>>,
    <<<<2511, 22621>>, <<"bot_info_layer48_struct", "bot_info_layer48", "None">>>>,
    <<<<6107, 37899>>, <<"None", "bot_inline_media_result", "None">>>>,
    <<<<30284, 63504>>, <<"None", "bot_inline_message_media_auto", "None">>>>,
    <<<<2676, 45403>>, <<"None", "bot_inline_message_media_auto_layer74", "None">>>>,
    <<<<6353, 52674>>, <<"None", "bot_inline_message_media_contact", "None">>>>,
    <<<<13805, 46292>>, <<"None", "bot_inline_message_media_contact_layer81", "None">>>>,
    <<<<46882, 56933>>, <<"None", "bot_inline_message_media_geo", "None">>>>,
    <<<<14991, 55480>>, <<"None", "bot_inline_message_media_geo_layer71", "None">>>>,
    <<<<35462, 26012>>, <<"None", "bot_inline_message_media_venue", "None">>>>,
    <<<<17254, 9006>>, <<"None", "bot_inline_message_media_venue_layer77", "None">>>>,
    <<<<35967, 26082>>, <<"None", "bot_inline_message_text", "None">>>>,
    <<<<4502, 24378>>, <<"None", "bot_inline_result", "None">>>>,
    <<<<54042, 38430>>, <<"channel_struct", "channel", "None">>>>,
    <<<<15194, 15936>>, <<"None", "channel_admin_log_event", "None">>>>,
    <<<<21784, 35374>>, <<"None", "channel_admin_log_event_action_change_about", "None">>>>,
    <<<<41583, 34843>>, <<"None", "channel_admin_log_event_action_change_linked_chat", "None">>>>,
    <<<<3691, 30382>>, <<"None", "channel_admin_log_event_action_change_location", "None">>>>,
    <<<<17227, 53935>>, <<"None", "channel_admin_log_event_action_change_photo">>>>,
    <<<<47151, 21955>>, <<"None", "channel_admin_log_event_action_change_photo_v_5_5_0", "None">>>>,
    <<<<45507, 51879>>, <<"None", "channel_admin_log_event_action_change_sticker_set", "None">>>>,
    <<<<59103, 47141>>, <<"None", "channel_admin_log_event_action_change_title", "None">>>>,
    <<<<27210, 64568>>, <<"None", "channel_admin_log_event_action_change_username", "None">>>>,
    <<<<11765, 64522>>, <<"None", "channel_admin_log_event_action_default_banned_rights", "None">>>>,
    <<<<17120, 18363>>, <<"None", "channel_admin_log_event_action_delete_message", "None">>>>,
    <<<<28827, 9221>>, <<"None", "channel_admin_log_event_action_edit_message", "None">>>>,
    <<<<58140, 13528>>, <<"None", "channel_admin_log_event_action_participant_invite", "None">>>>,
    <<<<6192, 16595>>, <<"None", "channel_admin_log_event_action_participant_join", "None">>>>,
    <<<<63639, 30706>>, <<"None", "channel_admin_log_event_action_participant_leave", "None">>>>,
    <<<<54631, 26384>>, <<"None", "channel_admin_log_event_action_participant_toggle_admin", "None">>>>,
    <<<<59096, 15742>>, <<"None", "channel_admin_log_event_action_participant_toggle_ban", "None">>>>,
    <<<<36615, 38467>>, <<"None", "channel_admin_log_event_action_stop_poll", "None">>>>,
    <<<<7033, 1966>>, <<"None", "channel_admin_log_event_action_toggle_invites", "None">>>>,
    <<<<24412, 38385>>, <<"None", "channel_admin_log_event_action_toggle_pre_history_hidden", "None">>>>,
    <<<<9902, 2417>>, <<"None", "channel_admin_log_event_action_toggle_signatures", "None">>>>,
    <<<<21392, 38777>>, <<"None", "channel_admin_log_event_action_toggle_slow_mode", "None">>>>,
    <<<<59880, 11288>>, <<"None", "channel_admin_log_event_action_update_pinned", "None">>>>,
    <<<<59920, 31460>>, <<"None", "channel_admin_log_events_filter", "None">>>>,
    <<<<23932, 60325>>, <<"channel_admin_rights_layer92_struct", "channel_admin_rights_layer92", "None">>>>,
    <<<<22735, 16969>>, <<"channel_banned_rights_layer92_struct", "channel_banned_rights_layer92", "None">>>>,
    <<<<10397, 42802>>, <<"channel_forbidden_struct", "channel_forbidden", "None">>>>,
    <<<<11653, 33580>>, <<"channel_forbidden_layer52_struct", "channel_forbidden_layer52", "None">>>>,
    <<<<34103, 30799>>, <<"channel_forbidden_layer67_struct", "channel_forbidden_layer67", "None">>>>,
    <<<<61670, 26410>>, <<"None", "channel_full", "None">>>>,
    <<<<40500, 7647>>, <<"None", "channel_full_layer48", "None">>>>,
    <<<<38846, 58722>>, <<"None", "channel_full_layer52", "None">>>>,
    <<<<50133, 20783>>, <<"None", "channel_full_layer67", "None">>>>,
    <<<<38347, 24407>>, <<"None", "channel_full_layer70", "None">>>>,
    <<<<6132, 24527>>, <<"None", "channel_full_layer71", "None">>>>,
    <<<<30383, 21633>>, <<"None", "channel_full_layer72", "None">>>>,
    <<<<52150, 10384>>, <<"None", "channel_full_layer89", "None">>>>,
    <<<<7303, 42778>>, <<"None", "channel_full_layer98", "None">>>>,
    <<<<868, 35191>>, <<"None", "channel_full_layer99", "None">>>>,
    <<<<39042, 58646>>, <<"None", "channel_full_layer101", "None">>>>,
    <<<<4241, 26195>>, <<"None", "channel_full_layer103", "None">>>>,
    <<<<11657, 23668>>, <<"None", "channel_full_layer110", "None">>>>,
    <<<<64179, 6819>>, <<"None", "channel_full_old", "None">>>>,
    <<<<8347, 33499>>, <<"None", "channel_location", "None">>>>,
    <<<<49077, 44427>>, <<"None", "channel_location_empty", "None">>>>,
    <<<<25358, 25022>>, <<"None", "chat_full_v_0_1_317">>>>,
    <<<<52599, 55639>>, <<"None", "channel_messages_filter", "None">>>>,
    <<<<38100, 12007>>, <<"None", "channel_messages_filter_empty", "None">>>>,
    <<<<5611, 44061>>, <<"None", "channel_participant", "None">>>>,
    <<<<52414, 48047>>, <<"None", "channel_participant_admin", "None">>>>,
    <<<<23978, 28195>>, <<"None", "channel_participant_admin_layer103", "None">>>>,
    <<<<43055, 43160>>, <<"None", "channel_participant_admin_layer92", "None">>>>,
    <<<<7183, 44207>>, <<"None", "channel_participant_banned", "None">>>>,
    <<<<8748, 6278>>, <<"None", "channel_participant_banned_layer92", "None">>>>,
    <<<<32909, 5540>>, <<"None", "channel_participant_creator", "None">>>>,
    <<<<58338, 57849>>, <<"None", "channel_participant_creator_layer103", "None">>>>,
    <<<<38937, 11617>>, <<"None", "channel_participant_editor_layer67", "None">>>>,
    <<<<36037, 59034>>, <<"None", "channel_participant_kicked_layer67", "None">>>>,
    <<<<37125, 32751>>, <<"None", "channel_participant_moderator_layer67", "None">>>>,
    <<<<41768, 39533>>, <<"None", "channel_participant_self", "None">>>>,
    <<<<46176, 35177>>, <<"None", "channel_participants_admins", "None">>>>,
    <<<<5159, 42465>>, <<"None", "channel_participants_banned", "None">>>>,
    <<<<45265, 34395>>, <<"None", "channel_participants_bots", "None">>>>,
    <<<<47978, 59533>>, <<"None", "channel_participants_contacts", "None">>>>,
    <<<<41909, 18821>>, <<"None", "channel_participants_kicked", "None">>>>,
    <<<<56895, 15481>>, <<"None", "channel_participants_recent", "None">>>>,
    <<<<1622, 44107>>, <<"None", "channel_participants_search", "None">>>>,
    <<<<19955, 2100>>, <<"channel_layer104_struct", "channel_layer104", "None">>>>,
    <<<<19227, 29958>>, <<"channel_layer48_struct", "channel_layer48", "None">>>>,
    <<<<41293, 51794>>, <<"channel_layer67_struct", "channel_layer67", "None">>>>,
    <<<<3252, 19228>>, <<"channel_layer72_struct", "channel_layer72", "None">>>>,
    <<<<17675, 28949>>, <<"channel_layer77_struct", "channel_layer77", "None">>>>,
    <<<<51337, 29868>>, <<"channel_layer92_struct", "channel_layer92", "None">>>>,
    <<<<26510, 38279>>, <<"channel_old_struct", "channel_old", "None">>>>,
    <<<<60810, 63309>>, <<"None", "channels_admin_log_results", "None">>>>,
    <<<<53465, 45411>>, <<"None", "channels_channel_participant", "None">>>>,
    <<<<62830, 58024>>, <<"None", "channels_channel_participants", "None">>>>,
    <<<<61463, 16361>>, <<"None", "channels_channel_participants_not_modified", "None">>>>,
    <<<<4326, 48428>>, <<"None", "channels_check_username", "None">>>>,
    <<<<15711, 45327>>, <<"None", "channels_create_channel", "None">>>>,
    <<<<62601, 15743>>, <<"None", "channels_create_channel_v_5_6_2", "None">>>>,
    <<<<49169, 8163>>, <<"None", "channels_delete_channel", "None">>>>,
    <<<<44854, 40258>>, <<"None", "channels_delete_history", "None">>>>,
    <<<<33985, 64846>>, <<"None", "channels_delete_messages", "None">>>>,
    <<<<53517, 55067>>, <<"None", "channels_delete_user_history", "None">>>>,
    <<<<54076, 35074>>, <<"None", "channels_edit_admin", "None">>>>,
    <<<<28920, 37818>>, <<"None", "channels_edit_admin_v_5_6_2", "None">>>>,
    <<<<29305, 26898>>, <<"None", "channels_edit_banned", "None">>>>,
    <<<<36664, 52511>>, <<"None", "channels_edit_creator", "None">>>>,
    <<<<22758, 16237>>, <<"None", "channels_edit_location", "None">>>>,
    <<<<61742, 22473>>, <<"None", "channels_edit_photo", "None">>>>,
    <<<<22125, 60624>>, <<"None", "channels_edit_title", "None">>>>,
    <<<<51270, 53805>>, <<"None", "channels_export_message_link", "None">>>>,
    <<<<13277, 62592>>, <<"None", "channels_get_admin_log", "None">>>>,
    <<<<63664, 13999>>, <<"None", "channels_get_admined_public_channels", "None">>>>,
    <<<<36237, 33495>>, <<"None", "channels_get_admined_public_channels_v_5_6_2", "None">>>>,
    <<<<2687, 27579>>, <<"None", "channels_get_channels", "None">>>>,
    <<<<2163, 27145>>, <<"None", "channels_get_full_channel", "None">>>>,
    <<<<62938, 54136>>, <<"None", "channels_get_groups_for_discussion", "None">>>>,
    <<<<4584, 12782>>, <<"None", "channels_get_inactive_channels", "None">>>>,
    <<<<37847, 45895>>, <<"None", "channels_get_messages", "None">>>>,
    <<<<21613, 55206>>, <<"None", "channels_get_participant", "None">>>>,
    <<<<4670, 1513>>, <<"None", "channels_get_participants", "None">>>>,
    <<<<6559, 14956>>, <<"None", "channels_invite_to_channel", "None">>>>,
    <<<<9397, 9413>>, <<"None", "channels_join_channel", "None">>>>,
    <<<<63542, 43669>>, <<"None", "channels_leave_channel", "None">>>>,
    <<<<52240, 18743>>, <<"None", "channels_read_history", "None">>>>,
    <<<<60085, 56376>>, <<"None", "channels_read_message_contents", "None">>>>,
    <<<<65032, 30736>>, <<"None", "channels_report_spam", "None">>>>,
    <<<<17312, 42978>>, <<"None", "channels_search_posts", "None">>>>,
    <<<<16472, 11186>>, <<"None", "channels_set_discussion_group", "None">>>>,
    <<<<60044, 42233>>, <<"None", "channels_set_stickers", "None">>>>,
    <<<<60091, 47436>>, <<"None", "channels_toggle_pre_history_hidden", "None">>>>,
    <<<<8041, 46598>>, <<"None", "channels_toggle_signatures", "None">>>>,
    <<<<60884, 40688>>, <<"None", "channels_toggle_slow_mode", "None">>>>,
    <<<<13588, 46046>>, <<"None", "channels_update_username", "None">>>>,
    <<<<15322, 7134>>, <<"chat_struct", "chat", "None">>>>,
    <<<<24498, 9429>>, <<"chat_admin_rights_struct", "chat_admin_rights", "None">>>>,
    <<<<40722, 1048>>, <<"chat_banned_rights_struct", "chat_banned_rights", "None">>>>,
    <<<<39842, 55296>>, <<"chat_empty_struct", "chat_empty", "None">>>>,
    <<<<1842, 35803>>, <<"chat_forbidden_struct", "chat_forbidden", "None">>>>,
    <<<<64268, 52289>>, <<"chat_forbidden_old_struct", "chat_forbidden_old", "None">>>>,
    <<<<7036, 40371>>, <<"None", "chat_full", "None">>>>,
    <<<<11778, 42516>>, <<"None", "chat_full_layer87", "None">>>>,
    <<<<60882, 42897>>, <<"None", "chat_full_layer92", "None">>>>,
    <<<<8866, 13786>>, <<"None", "chat_full_layer98", "None">>>>,
    <<<<57282, 62862>>, <<"None", "chat_invite", "None">>>>,
    <<<<23144, 28028>>, <<"None", "chat_invite_already", "None">>>>,
    <<<<27103, 14185>>, <<"None", "chat_invite_empty", "None">>>>,
    <<<<64558, 1468>>, <<"None", "chat_invite_exported", "None">>>>,
    <<<<24937, 23728>>, <<"None", "chat_invite_peek", "None">>>>,
    <<<<56180, 62808>>, <<"None", "chat_invite_v_5_5_0", "None">>>>,
    <<<<55580, 56660>>, <<"chat_layer92_struct", "chat_layer92", "None">>>>,
    <<<<13873, 53068>>, <<"None", "chat_located", "None">>>>,
    <<<<61505, 57936>>, <<"None", "chat_onlines", "None">>>>,
    <<<<51415, 18750>>, <<"None", "chat_participant", "None">>>>,
    <<<<58070, 58422>>, <<"None", "chat_participant_admin", "None">>>>,
    <<<<55827, 21386>>, <<"None", "chat_participant_creator", "None">>>>,
    <<<<16198, 4077>>, <<"None", "chat_participants", "None">>>>,
    <<<<64656, 3115>>, <<"None", "chat_participants_forbidden", "None">>>>,
    <<<<4050, 48010>>, <<"None", "chat_participants_forbidden_old", "None">>>>,
    <<<<30785, 46101>>, <<"None", "chat_participants_old", "None">>>>,
    <<<<53771, 40764>>, <<"chat_photo_struct", "chat_photo", "None">>>>,
    <<<<18268, 56277>>, <<"chat_photo_layer115_struct", "chat_photo_layer115">>>>,
    <<<<24915, 10090>>, <<"chat_photo_layer97_struct", "chat_photo_layer97", "None">>>>,
    <<<<14273, 284>>, <<"chat_photo_empty_struct", "chat_photo_empty", "None">>>>,
    <<<<28316, 39879>>, <<"chat_old_struct", "chat_old", "None">>>>,
    <<<<29458, 48200>>, <<"chat_old2_struct", "chat_old2", "None">>>>,
    <<<<26179, 46676>>, <<"None", "client_dh_inner_data_v_0_1_317">>>>,
    <<<<57022, 48771>>, <<"None", "code_settings", "None">>>>,
    <<<<12335, 23027>>, <<"None", "code_settings_v_5_6_2", "None">>>>,
    <<<<13067, 16487>>, <<"None", "config", "None">>>>,
    <<<<9005, 22789>>, <<"None", "config_v_0_1_317">>>>,
    <<<<59082, 9718>>, <<"None", "config_v_5_5_0", "None">>>>,
    <<<<63761, 51604>>, <<"None", "contact", "None">>>>,
    <<<<22043, 51321>>, <<"None", "contact_blocked", "None">>>>,
    <<<<60039, 40853>>, <<"None", "contact_found", "None">>>>,
    <<<<54530, 49872>>, <<"contact_link_contact_struct", "contact_link_contact", "None">>>>,
    <<<<9871, 16217>>, <<"contact_link_has_phone_struct", "contact_link_has_phone", "None">>>>,
    <<<<65261, 54189>>, <<"contact_link_none_struct", "contact_link_none", "None">>>>,
    <<<<24399, 37447>>, <<"contact_link_unknown_struct", "contact_link_unknown", "None">>>>,
    <<<<54120, 3169>>, <<"None", "contact_status", "None">>>>,
    <<<<43639, 47219>>, <<"None", "contact_status_v_0_1_317">>>>,
    <<<<15841, 37281>>, <<"None", "contact_suggested_v_0_1_317">>>>,
    <<<<63537, 41487>>, <<"None", "contacts_accept_contact", "None">>>>,
    <<<<59636, 25552>>, <<"None", "contacts_add_contact", "None">>>>,
    <<<<13099, 18940>>, <<"None", "contacts_block", "None">>>>,
    <<<<7187, 36117>>, <<"None", "contacts_blocked", "None">>>>,
    <<<<36872, 673>>, <<"None", "contacts_blocked_slice", "None">>>>,
    <<<<60136, 32322>>, <<"None", "contacts_contacts", "None">>>>,
    <<<<28555, 36018>>, <<"None", "contacts_contacts_v_0_1_317">>>>,
    <<<<46923, 43474>>, <<"None", "contacts_contacts_not_modified", "None">>>>,
    <<<<4115, 64926>>, <<"None", "contacts_delete_by_phones", "None">>>>,
    <<<<36501, 14148>>, <<"None", "contacts_delete_contact", "None">>>>,
    <<<<2410, 3584>>, <<"None", "contacts_delete_contacts", "None">>>>,
    <<<<22955, 14494>>, <<"None", "contacts_delete_contacts_v_5_6_2", "None">>>>,
    <<<<34021, 14135>>, <<"None", "contacts_export_card", "None">>>>,
    <<<<7146, 36065>>, <<"None", "contacts_foreign_link_mutual_v_0_1_317">>>>,
    <<<<42880, 8007>>, <<"None", "contacts_foreign_link_requested_v_0_1_317">>>>,
    <<<<4916, 8696>>, <<"None", "contacts_foreign_link_unknown_v_0_1_317">>>>,
    <<<<45843, 19869>>, <<"None", "contacts_found", "None">>>>,
    <<<<1382, 14>>, <<"None", "contacts_found_v_0_1_317">>>>,
    <<<<62844, 13583>>, <<"None", "contacts_get_blocked", "None">>>>,
    <<<<49187, 33951>>, <<"None", "contacts_get_contacts", "None">>>>,
    <<<<8902, 43528>>, <<"None", "contacts_get_contacts_v_0_1_317">>>>,
    <<<<54088, 48196>>, <<"None", "contacts_get_located", "None">>>>,
    <<<<50339, 21486>>, <<"None", "contacts_get_statuses", "None">>>>,
    <<<<52599, 13352>>, <<"None", "contacts_get_suggested_v_0_1_317">>>>,
    <<<<54424, 11701>>, <<"None", "contacts_get_top_peers", "None">>>>,
    <<<<20449, 38654>>, <<"None", "contacts_import_card", "None">>>>,
    <<<<11392, 3045>>, <<"None", "contacts_import_contacts", "None">>>>,
    <<<<55856, 45869>>, <<"None", "contacts_import_contacts_v_0_1_317">>>>,
    <<<<30672, 7227>>, <<"None", "contacts_imported_contacts", "None">>>>,
    <<<<53709, 2636>>, <<"None", "contacts_imported_contacts_v_0_1_317">>>>,
    <<<<15054, 18508>>, <<"contacts_link_layer101_struct", "contacts_link_layer101", "None">>>>,
    <<<<60622, 41973>>, <<"None", "contacts_link_v_0_317">>>>,
    <<<<49728, 60377>>, <<"None", "contacts_my_link_contact_v_0_1_317">>>>,
    <<<<53802, 7264>>, <<"None", "contacts_my_link_empty_v_0_1_317">>>>,
    <<<<27753, 61422>>, <<"None", "contacts_my_link_requested_v_0_1_317">>>>,
    <<<<34709, 14321>>, <<"None", "contacts_reset_saved", "None">>>>,
    <<<<6883, 29612>>, <<"None", "contacts_reset_top_peer_rating", "None">>>>,
    <<<<63804, 52131>>, <<"None", "contacts_resolve_username", "None">>>>,
    <<<<32519, 31449>>, <<"None", "contacts_resolved_peer", "None">>>>,
    <<<<4600, 4824>>, <<"None", "contacts_search", "None">>>>,
    <<<<22089, 56517>>, <<"None", "contacts_suggested_v_0_1_317">>>>,
    <<<<34068, 48602>>, <<"None", "contacts_toggle_top_peers", "None">>>>,
    <<<<28855, 29352>>, <<"None", "contacts_top_peers", "None">>>>,
    <<<<46380, 37789>>, <<"None", "contacts_top_peers_disabled", "None">>>>,
    <<<<56870, 28405>>, <<"None", "contacts_top_peers_not_modified", "None">>>>,
    <<<<58689, 189>>, <<"None", "contacts_unblock", "None">>>>,
    <<<<32116, 36100>>, <<"None", "data_json", "None">>>>,
    <<<<6327, 41229>>, <<"None", "dc_option", "None">>>>,
    <<<<11970, 42044>>, <<"None", "dc_option_v_0_1_317">>>>,
    <<<<37324, 18036>>, <<"None", "decrypted_message", "None">>>>,
    <<<<56581, 60523>>, <<"decrypted_message_action_abort_key_struct", "decrypted_message_action_abort_key", "None">>>>,
    <<<<28641, 29531>>, <<"decrypted_message_action_accept_key_struct", "decrypted_message_action_accept_key", "None">>>>,
    <<<<60462, 2971>>, <<"decrypted_message_action_commit_key_struct", "decrypted_message_action_commit_key", "None">>>>,
    <<<<25953, 17156>>, <<"decrypted_message_action_delete_messages_struct", "decrypted_message_action_delete_messages", "None">>>>,
    <<<<26393, 58460>>, <<"decrypted_message_action_flush_history_struct", "decrypted_message_action_flush_history", "None">>>>,
    <<<<43055, 56675>>, <<"decrypted_message_action_noop_struct", "decrypted_message_action_noop", "None">>>>,
    <<<<62212, 34947>>, <<"decrypted_message_action_notify_layer_struct", "decrypted_message_action_notify_layer", "None">>>>,
    <<<<3151, 16574>>, <<"decrypted_message_action_read_messages_struct", "decrypted_message_action_read_messages", "None">>>>,
    <<<<62409, 24859>>, <<"decrypted_message_action_request_key_struct", "decrypted_message_action_request_key", "None">>>>,
    <<<<20753, 4272>>, <<"decrypted_message_action_resend_struct", "decrypted_message_action_resend", "None">>>>,
    <<<<35521, 62581>>, <<"decrypted_message_action_screenshot_messages_struct", "decrypted_message_action_screenshot_messages", "None">>>>,
    <<<<41331, 15084>>, <<"decrypted_message_action_set_message_ttl_struct", "decrypted_message_action_set_message_ttl", "None">>>>,
    <<<<52402, 30273>>, <<"decrypted_message_action_typing_struct", "decrypted_message_action_typing", "None">>>>,
    <<<<7139, 6025>>, <<"None", "decrypted_message_layer", "None">>>>,
    <<<<39332, 14543>>, <<"None", "decrypted_message_layer_v_0_1_317">>>>,
    <<<<22496, 43467>>, <<"None", "decrypted_message_media_audio", "None">>>>,
    <<<<24704, 30095>>, <<"None", "decrypted_message_media_audio_layer8", "None">>>>,
    <<<<22666, 2711>>, <<"None", "decrypted_message_media_contact", "None">>>>,
    <<<<31486, 35554>>, <<"None", "decrypted_message_media_document", "None">>>>,
    <<<<45205, 17227>>, <<"None", "decrypted_message_media_document_layer8", "None">>>>,
    <<<<2207, 23626>>, <<"None", "decrypted_message_media_empty", "None">>>>,
    <<<<64149, 45277>>, <<"None", "decrypted_message_media_external_document", "None">>>>,
    <<<<13640, 2649>>, <<"None", "decrypted_message_media_geo_point", "None">>>>,
    <<<<61946, 36216>>, <<"None", "decrypted_message_media_photo", "None">>>>,
    <<<<12921, 35468>>, <<"None", "decrypted_message_media_photo_layer8", "None">>>>,
    <<<<35341, 62831>>, <<"None", "decrypted_message_media_venue", "None">>>>,
    <<<<38668, 35854>>, <<"None", "decrypted_message_media_video", "None">>>>,
    <<<<21066, 16733>>, <<"None", "decrypted_message_media_video_layer17", "None">>>>,
    <<<<19694, 28403>>, <<"None", "decrypted_message_media_video_layer8", "None">>>>,
    <<<<58629, 4568>>, <<"None", "decrypted_message_media_web_page", "None">>>>,
    <<<<29462, 16736>>, <<"None", "decrypted_message_service", "None">>>>,
    <<<<43592, 12925>>, <<"None", "decrypted_message_service_layer8", "None">>>>,
    <<<<8269, 14456>>, <<"None", "decrypted_message_layer17", "None">>>>,
    <<<<14000, 37342>>, <<"None", "decrypted_message_layer45", "None">>>>,
    <<<<8065, 20255>>, <<"None", "decrypted_message_layer8", "None">>>>,
    <<<<59217, 8486>>, <<"None", "destroy_session_v_0_1_317">>>>,
    <<<<41277, 50479>>, <<"None", "destroy_sessions_v_0_1_317">>>>,
    <<<<25299, 20681>>, <<"None", "destroy_session_none_v_0_1_317">>>>,
    <<<<57888, 17916>>, <<"None", "destroy_session_ok_v_0_1_317">>>>,
    <<<<64405, 43981>>, <<"None", "destroy_sessions_res_v_0_1_317">>>>,
    <<<<42653, 44546>>, <<"None", "dh_gen_fail_v_0_1_317">>>>,
    <<<<15307, 63284>>, <<"None", "dh_gen_ok_v_0_1_317">>>>,
    <<<<18140, 8121>>, <<"None", "dh_gen_retry_v_0_1_317">>>>,
    <<<<11287, 8050>>, <<"None", "dialog", "None">>>>,
    <<<<29752, 63464>>, <<"None", "dialog_filter", "None">>>>,
    <<<<30580, 19786>>, <<"None", "dialog_filter_suggested", "None">>>>,
    <<<<5369, 5676>>, <<"None", "dialog_filter_v_5_15_0", "None">>>>,
    <<<<29117, 4940>>, <<"None", "dialog_folder", "None">>>>,
    <<<<8522, 36063>>, <<"None", "dialog_v_0_1_317">>>>,
    <<<<58590, 62939>>, <<"None", "dialog_v_5_5_0", "None">>>>,
    <<<<58733, 48901>>, <<"None", "dialog_peer", "None">>>>,
    <<<<55874, 37905>>, <<"None", "dialog_peer_feed_v_5_5_0", "None">>>>,
    <<<<20805, 6626>>, <<"None", "dialog_peer_folder", "None">>>>,
    <<<<7815, 13355>>, <<"document_struct", "document", "None">>>>,
    <<<<4533, 35129>>, <<"document_attribute_animated_struct", "document_attribute_animated", "None">>>>,
    <<<<38994, 63942>>, <<"document_attribute_audio_struct", "document_attribute_audio", "None">>>>,
    <<<<57042, 6368>>, <<"document_attribute_audio_layer45_struct", "document_attribute_audio_layer45", "None">>>>,
    <<<<1300, 18661>>, <<"document_attribute_audio_old_struct", "document_attribute_audio_old", "None">>>>,
    <<<<5465, 104>>, <<"document_attribute_filename_struct", "document_attribute_filename", "None">>>>,
    <<<<38913, 54007>>, <<"document_attribute_has_stickers_struct", "document_attribute_has_stickers", "None">>>>,
    <<<<27703, 49500>>, <<"document_attribute_image_size_struct", "document_attribute_image_size", "None">>>>,
    <<<<25369, 54802>>, <<"document_attribute_sticker_struct", "document_attribute_sticker", "None">>>>,
    <<<<14933, 25346>>, <<"document_attribute_sticker_layer55_struct", "document_attribute_sticker_layer55", "None">>>>,
    <<<<64266, 22311>>, <<"document_attribute_sticker_old_struct", "document_attribute_sticker_old", "None">>>>,
    <<<<39244, 39042>>, <<"document_attribute_sticker_old2_struct", "document_attribute_sticker_old2", "None">>>>,
    <<<<3824, 11494>>, <<"document_attribute_video_struct", "document_attribute_video", "None">>>>,
    <<<<22800, 52427>>, <<"document_attribute_video_layer65_struct", "document_attribute_video_layer65", "None">>>>,
    <<<<14072, 51313>>, <<"document_empty_struct", "document_empty", "None">>>>,
    <<<<21845, 21848>>, <<"document_encrypted_struct", "document_encrypted", "None">>>>,
    <<<<21845, 21846>>, <<"document_encrypted_old_struct", "document_encrypted_old", "None">>>>,
    <<<<39842, 40129>>, <<"document_layer113_struct", "document_layer113", "None">>>>,
    <<<<63907, 40783>>, <<"document_layer53_struct", "document_layer53", "None">>>>,
    <<<<34595, 11207>>, <<"document_layer82_struct", "document_layer82", "None">>>>,
    <<<<22867, 20044>>, <<"document_layer92_struct", "document_layer92", "None">>>>,
    <<<<40700, 25382>>, <<"document_old_struct", "document_old", "None">>>>,
    <<<<64910, 28959>>, <<"None", "draft_message", "None">>>>,
    <<<<6924, 33818>>, <<"None", "draft_message_empty", "None">>>>,
    <<<<47691, 44741>>, <<"None", "draft_message_empty_layer81", "None">>>>,
    <<<<54707, 47609>>, <<"None", "emoji_keyword", "None">>>>,
    <<<<9069, 63010>>, <<"None", "emoji_keyword_deleted", "None">>>>,
    <<<<23751, 25021>>, <<"None", "emoji_keywords_difference", "None">>>>,
    <<<<46075, 21345>>, <<"None", "emoji_language", "None">>>>,
    <<<<42357, 29597>>, <<"None", "emoji_url", "None">>>>,
    <<<<64086, 52790>>, <<"encrypted_chat_struct", "encrypted_chat", "None">>>>,
    <<<<5078, 56615>>, <<"encrypted_chat_discarded_struct", "encrypted_chat_discarded", "None">>>>,
    <<<<43902, 49312>>, <<"encrypted_chat_empty_struct", "encrypted_chat_empty", "None">>>>,
    <<<<25201, 35458>>, <<"encrypted_chat_requested_struct", "encrypted_chat_requested", "None">>>>,
    <<<<51320, 21118>>, <<"encrypted_chat_requested_layer115_struct", "encrypted_chat_requested_layer115", "None">>>>,
    <<<<64937, 42935>>, <<"encrypted_chat_requested_old_struct", "encrypted_chat_requested_old", "None">>>>,
    <<<<15351, 988>>, <<"encrypted_chat_waiting_struct", "encrypted_chat_waiting", "None">>>>,
    <<<<26113, 53583>>, <<"encrypted_chat_old_struct", "encrypted_chat_old", "None">>>>,
    <<<<19056, 39244>>, <<"None", "encrypted_file", "None">>>>,
    <<<<49695, 18814>>, <<"None", "encrypted_file_empty", "None">>>>,
    <<<<60696, 49432>>, <<"None", "encrypted_message", "None">>>>,
    <<<<9075, 19206>>, <<"None", "encrypted_message_service", "None">>>>,
    <<<<50361, 63931>>, <<"None", "error", "None">>>>,
    <<<<23979, 6900>>, <<"None", "exported_message_link", "None">>>>,
    <<<<21845, 21844>>, <<"file_encrypted_location_struct", "file_encrypted_location", "None">>>>,
    <<<<25154, 51059>>, <<"None", "file_hash", "None">>>>,
    <<<<48255, 50893>>, <<"file_location_to_be_deprecated_struct", "file_location_to_be_deprecated", "None">>>>,
    <<<<21462, 36982>>, <<"file_location_layer82_struct", "file_location_layer82", "None">>>>,
    <<<<2333, 4587>>, <<"file_location_layer97_struct", "file_location_layer97", "None">>>>,
    <<<<31833, 27462>>, <<"file_location_unavailable_struct", "file_location_unavailable", "None">>>>,
    <<<<65364, 20069>>, <<"None", "folder", "None">>>>,
    <<<<59834, 42600>>, <<"None", "folder_peer", "None">>>>,
    <<<<7209, 22657>>, <<"None", "folders_delete_folder", "None">>>>,
    <<<<26695, 53419>>, <<"None", "folders_edit_peer_folders", "None">>>>,
    <<<<5678, 52255>>, <<"None", "found_gif", "None">>>>,
    <<<<40053, 1033>>, <<"None", "found_gif_cached", "None">>>>,
    <<<<2377, 55772>>, <<"None", "future_salt_v_0_1_317">>>>,
    <<<<44624, 2197>>, <<"None", "futuresalts_v_0_1_317">>>>,
    <<<<48633, 25915>>, <<"game_struct", "game", "None">>>>,
    <<<<30186, 59994>>, <<"None", "geo_chat_v_0_1_317">>>>,
    <<<<17669, 63713>>, <<"None", "geo_chat_message_v_0_1_317">>>>,
    <<<<24625, 6811>>, <<"None", "geo_chat_message_empty_v_0_1_317">>>>,
    <<<<54095, 41550>>, <<"None", "geo_chat_message_service_v_0_1_317">>>>,
    <<<<662, 61700>>, <<"geo_point_struct", "geo_point", "None">>>>,
    <<<<4375, 56671>>, <<"geo_point_empty_struct", "geo_point_empty", "None">>>>,
    <<<<8265, 55052>>, <<"geo_point_layer81_struct", "geo_point_layer81", "None">>>>,
    <<<<21939, 59643>>, <<"None", "geochats_checkin_v_0_1_317">>>>,
    <<<<3593, 11798>>, <<"None", "geochats_create_geo_chat_v_0_1_317">>>>,
    <<<<13784, 6805>>, <<"None", "geochats_edit_chat_photo_v_0_1_317">>>>,
    <<<<19598, 8819>>, <<"None", "geochats_edit_chat_title_v_0_1_317">>>>,
    <<<<26402, 56687>>, <<"None", "geochats_get_full_chat_v_0_1_317">>>>,
    <<<<46399, 31336>>, <<"None", "geochats_get_history_v_0_1_317">>>>,
    <<<<32537, 11663>>, <<"None", "geochats_get_located_v_0_1_317">>>>,
    <<<<57666, 32367>>, <<"None", "geochats_get_recents_v_0_1_317">>>>,
    <<<<18686, 45671>>, <<"None", "geochats_located_v_0_1_317">>>>,
    <<<<53586, 28081>>, <<"None", "geochats_messages_v_0_1_317">>>>,
    <<<<48216, 25576>>, <<"None", "geochats_messages_slice_v_0_1_317">>>>,
    <<<<53197, 50253>>, <<"None", "geochats_search_v_0_1_317">>>>,
    <<<<47344, 57087>>, <<"None", "geochats_send_media_v_0_1_317">>>>,
    <<<<1563, 68>>, <<"None", "geochats_send_message_v_0_1_317">>>>,
    <<<<2232, 42793>>, <<"None", "geochats_set_typing_v_0_1_317">>>>,
    <<<<6065, 22411>>, <<"None", "geochats_stated_message_v_0_1_317">>>>,
    <<<<47393, 48388>>, <<"None", "get_future_salts_v_0_1_317">>>>,
    <<<<48802, 62500>>, <<"None", "global_privacy_settings", "None">>>>,
    <<<<2703, 5668>>, <<"None", "group_call", "None">>>>,
    <<<<16499, 8547>>, <<"None", "group_call_connection", "None">>>>,
    <<<<30592, 48308>>, <<"None", "group_call_discarded", "None">>>>,
    <<<<22685, 45975>>, <<"None", "group_call_participant", "None">>>>,
    <<<<20235, 14776>>, <<"None", "group_call_participant_admin", "None">>>>,
    <<<<14196, 38640>>, <<"None", "group_call_participant_invited", "None">>>>,
    <<<<16795, 3570>>, <<"None", "group_call_participant_left", "None">>>>,
    <<<<27915, 5636>>, <<"None", "group_call_private", "None">>>>,
    <<<<12402, 53153>>, <<"None", "gzip_packed_v_0_1_317">>>>,
    <<<<61042, 63386>>, <<"None", "help_accept_terms_of_service", "None">>>>,
    <<<<7591, 5519>>, <<"None", "help_app_update", "None">>>>,
    <<<<35207, 62225>>, <<"None", "help_app_update_v_0_1_317">>>>,
    <<<<51218, 44158>>, <<"None", "help_get_app_update_v_0_1_317">>>>,
    <<<<27214, 59442>>, <<"None", "help_deep_link_info", "None">>>>,
    <<<<26287, 41318>>, <<"None", "help_deep_link_info_empty", "None">>>>,
    <<<<1919, 43423>>, <<"None", "help_dismiss_suggestion", "None">>>>,
    <<<<26297, 7024>>, <<"None", "help_edit_user_info", "None">>>>,
    <<<<36880, 61295>>, <<"None", "help_get_app_changelog", "None">>>>,
    <<<<39057, 16656>>, <<"None", "help_get_app_config", "None">>>>,
    <<<<21037, 23165>>, <<"None", "help_get_app_update", "None">>>>,
    <<<<50425, 6251>>, <<"None", "help_get_config", "None">>>>,
    <<<<16365, 51039>>, <<"None", "help_get_deep_link_info", "None">>>>,
    <<<<19769, 9027>>, <<"None", "help_get_invite_text", "None">>>>,
    <<<<42153, 20870>>, <<"None", "help_get_invite_text_v_0_1_317">>>>,
    <<<<8115, 12326>>, <<"None", "help_get_nearest_dc", "None">>>>,
    <<<<50785, 44296>>, <<"None", "help_get_passport_config", "None">>>>,
    <<<<49303, 29729>>, <<"None", "help_get_promo_data", "None">>>>,
    <<<<15735, 22753>>, <<"None", "help_get_proxy_data", "None">>>>,
    <<<<15808, 61716>>, <<"None", "help_get_recent_me_urls", "None">>>>,
    <<<<40159, 2253>>, <<"None", "help_get_support", "None">>>>,
    <<<<54112, 59180>>, <<"None", "help_get_support_name", "None">>>>,
    <<<<11429, 8145>>, <<"None", "help_get_terms_of_service_update", "None">>>>,
    <<<<906, 2259>>, <<"None", "help_get_user_info", "None">>>>,
    <<<<7717, 7317>>, <<"None", "help_hide_promo_data", "None">>>>,
    <<<<6347, 40824>>, <<"None", "help_invite_text", "None">>>>,
    <<<<50266, 25910>>, <<"None", "help_no_app_update", "None">>>>,
    <<<<41112, 54959>>, <<"None", "help_passport_config", "None">>>>,
    <<<<49081, 62551>>, <<"None", "help_passport_config_not_modified", "None">>>>,
    <<<<39158, 44149>>, <<"None", "help_promo_data_empty", "None">>>>,
    <<<<35897, 31039>>, <<"None", "help_promo_data", "None">>>>,
    <<<<57502, 8120>>, <<"None", "help_proxy_data_empty", "None">>>>,
    <<<<11255, 60963>>, <<"None", "help_proxy_data_promo", "None">>>>,
    <<<<3587, 4311>>, <<"None", "help_recent_me_urls", "None">>>>,
    <<<<28418, 63304>>, <<"None", "help_save_app_log", "None">>>>,
    <<<<60450, 53197>>, <<"None", "help_set_bot_updates_status", "None">>>>,
    <<<<6086, 46582>>, <<"None", "help_support", "None">>>>,
    <<<<35845, 61897>>, <<"None", "help_support_name", "None">>>>,
    <<<<30730, 784>>, <<"None", "help_terms_of_service", "None">>>>,
    <<<<10476, 63841>>, <<"None", "help_terms_of_service_update", "None">>>>,
    <<<<58160, 40831>>, <<"None", "help_terms_of_service_update_empty", "None">>>>,
    <<<<491, 14168>>, <<"None", "help_user_info", "None">>>>,
    <<<<62382, 12013>>, <<"None", "help_user_info_empty", "None">>>>,
    <<<<22783, 64720>>, <<"None", "high_score", "None">>>>,
    <<<<37529, 13727>>, <<"None", "http_wait_v_0_1_317">>>>,
    <<<<53250, 33848>>, <<"None", "imported_contact", "None">>>>,
    <<<<27001, 28137>>, <<"None", "init_connection_v_0_1_317">>>>,
    <<<<15392, 25247>>, <<"None", "inline_bot_switch_p_m", "None">>>>,
    <<<<7451, 4677>>, <<"None", "input_app_event", "None">>>>,
    <<<<30470, 22184>>, <<"None", "input_app_event_v_0_1_317">>>>,
    <<<<30676, 16639>>, <<"None", "input_audio_v_0_1_317">>>>,
    <<<<55642, 56452>>, <<"None", "input_audio_empty_v_0_1_317">>>>,
    <<<<29916, 16461>>, <<"None", "input_audio_file_location_v_0_1_317">>>>,
    <<<<35084, 15753>>, <<"None", "input_bot_inline_message_id", "None">>>>,
    <<<<45035, 28974>>, <<"input_channel_struct", "input_channel", "None">>>>,
    <<<<61068, 7814>>, <<"input_channel_empty_struct", "input_channel_empty", "None">>>>,
    <<<<10792, 25905>>, <<"None", "input_channel_from_message", "None">>>>,
    <<<<35155, 44343>>, <<"None", "input_chat_photo", "None">>>>,
    <<<<45793, 48904>>, <<"None", "input_chat_photo_v_0_1_317">>>>,
    <<<<7332, 36695>>, <<"None", "input_chat_photo_empty", "None">>>>,
    <<<<50754, 29262>>, <<"None", "input_chat_uploaded_photo", "None">>>>,
    <<<<37500, 21940>>, <<"None", "input_chat_uploaded_photo_v_5_15_0", "None">>>>,
    <<<<37925, 18226>>, <<"None", "input_chat_uploaded_photo_v_0_1_317">>>>,
    <<<<39040, 63064>>, <<"None", "input_check_password_empty", "None">>>>,
    <<<<53887, 61570>>, <<"None", "input_check_password_s_r_p", "None">>>>,
    <<<<64682, 65207>>, <<"None", "input_dialog_peer", "None">>>>,
    <<<<11320, 47311>>, <<"None", "input_dialog_peer_feed_v_5_5_0", "None">>>>,
    <<<<25696, 1319>>, <<"None", "input_dialog_peer_folder", "None">>>>,
    <<<<6847, 46453>>, <<"None", "input_document", "None">>>>,
    <<<<29424, 60078>>, <<"None", "input_document_empty", "None">>>>,
    <<<<47824, 30084>>, <<"None", "input_document_file_location", "None">>>>,
    <<<<20037, 44009>>, <<"None", "input_document_file_location_v_0_1_317">>>>,
    <<<<6502, 33753>>, <<"None", "input_document_file_location_v_5_5_0", "None">>>>,
    <<<<6265, 35154>>, <<"None", "input_document_v_0_1_317">>>>,
    <<<<61761, 46561>>, <<"None", "input_encrypted_chat", "None">>>>,
    <<<<23063, 46565>>, <<"None", "input_encrypted_file", "None">>>>,
    <<<<11713, 29640>>, <<"None", "input_encrypted_file_big_uploaded", "None">>>>,
    <<<<6199, 50020>>, <<"None", "input_encrypted_file_empty", "None">>>>,
    <<<<62755, 23893>>, <<"None", "input_encrypted_file_location", "None">>>>,
    <<<<25789, 774>>, <<"None", "input_encrypted_file_uploaded", "None">>>>,
    <<<<62767, 62079>>, <<"None", "input_file", "None">>>>,
    <<<<64079, 2997>>, <<"None", "input_file_big", "None">>>>,
    <<<<57306, 44001>>, <<"None", "input_file_location", "None">>>>,
    <<<<5219, 29078>>, <<"None", "input_file_location_v_0_1_317">>>>,
    <<<<64466, 49814>>, <<"None", "input_folder_peer", "None">>>>,
    <<<<812, 15991>>, <<"None", "input_game_id", "None">>>>,
    <<<<49969, 59402>>, <<"None", "input_game_short_name", "None">>>>,
    <<<<29908, 22266>>, <<"None", "input_geo_chat_v_0_1_317">>>>,
    <<<<62391, 44233>>, <<"None", "input_geo_point", "None">>>>,
    <<<<58561, 9174>>, <<"None", "input_geo_point_empty", "None">>>>,
    <<<<55466, 33807>>, <<"input_group_call_struct", "input_group_call", "None">>>>,
    <<<<53294, 32724>>, <<"None", "input_keyboard_button_url_auth", "None">>>>,
    <<<<35219, 34689>>, <<"None", "input_media_audio_v_0_1_317">>>>,
    <<<<63659, 32251>>, <<"None", "input_media_contact", "None">>>>,
    <<<<42724, 22919>>, <<"None", "input_media_contact_v_0_1_317">>>>,
    <<<<58991, 49019>>, <<"None", "input_media_dice", "None">>>>,
    <<<<9131, 9170>>, <<"None", "input_media_document", "None">>>>,
    <<<<64338, 56473>>, <<"None", "input_media_document_external", "None">>>>,
    <<<<53636, 59457>>, <<"None", "input_media_document_v_0_1_317">>>>,
    <<<<38500, 62847>>, <<"None", "input_media_empty", "None">>>>,
    <<<<54079, 17395>>, <<"None", "input_media_game", "None">>>>,
    <<<<52814, 33533>>, <<"None", "input_media_geo_live", "None">>>>,
    <<<<63940, 16708>>, <<"None", "input_media_geo_point", "None">>>>,
    <<<<18499, 45309>>, <<"None", "input_media_gif_external", "None">>>>,
    <<<<46010, 1589>>, <<"None", "input_media_photo", "None">>>>,
    <<<<58811, 65050>>, <<"None", "input_media_photo_external", "None">>>>,
    <<<<36650, 45804>>, <<"None", "input_media_photo_v_0_1_317">>>>,
    <<<<3988, 58865>>, <<"None", "input_media_poll", "None">>>>,
    <<<<44009, 51749>>, <<"None", "input_media_poll_v_5_15_0", "None">>>>,
    <<<<1715, 30299>>, <<"None", "input_media_poll_v_5_6_2", "None">>>>,
    <<<<24998, 54326>>, <<"None", "input_media_uploaded_audio_v_0_1_317">>>>,
    <<<<23352, 50881>>, <<"None", "input_media_uploaded_document", "None">>>>,
    <<<<13543, 38077>>, <<"None", "input_media_uploaded_document_v_0_1_317">>>>,
    <<<<7720, 32004>>, <<"None", "input_media_uploaded_photo", "None">>>>,
    <<<<11717, 14973>>, <<"None", "input_media_uploaded_photo_v_0_1_317">>>>,
    <<<<15942, 56925>>, <<"None", "input_media_uploaded_thumb_document_v_0_1_317">>>>,
    <<<<58920, 41285>>, <<"None", "input_media_uploaded_thumb_video_v_0_1_317">>>>,
    <<<<18503, 55594>>, <<"None", "input_media_uploaded_video_v_0_1_317">>>>,
    <<<<49469, 7185>>, <<"None", "input_media_venue", "None">>>>,
    <<<<32514, 15078>>, <<"None", "input_media_video_v_0_1_317">>>>,
    <<<<8334, 26825>>, <<"input_message_entity_mention_name_struct", "input_message_entity_mention_name", "None">>>>,
    <<<<14880, 60600>>, <<"None", "input_messages_filter_chat_photos", "None">>>>,
    <<<<57442, 56195>>, <<"None", "input_messages_filter_contacts", "None">>>>,
    <<<<40669, 61832>>, <<"None", "input_messages_filter_document", "None">>>>,
    <<<<22498, 63084>>, <<"None", "input_messages_filter_empty", "None">>>>,
    <<<<59138, 27917>>, <<"None", "input_messages_filter_geo", "None">>>>,
    <<<<65480, 25991>>, <<"None", "input_messages_filter_gif", "None">>>>,
    <<<<14161, 46238>>, <<"None", "input_messages_filter_music", "None">>>>,
    <<<<49656, 59034>>, <<"None", "input_messages_filter_my_mentions", "None">>>>,
    <<<<32969, 38760>>, <<"None", "input_messages_filter_phone_calls", "None">>>>,
    <<<<22249, 61668>>, <<"None", "input_messages_filter_photo_video", "None">>>>,
    <<<<55646, 29627>>, <<"None", "input_messages_filter_photo_video_documents", "None">>>>,
    <<<<38409, 42268>>, <<"None", "input_messages_filter_photos", "None">>>>,
    <<<<46409, 55891>>, <<"None", "input_messages_filter_round_video", "None">>>>,
    <<<<31356, 6052>>, <<"None", "input_messages_filter_round_voice", "None">>>>,
    <<<<32496, 56711>>, <<"None", "input_messages_filter_url", "None">>>>,
    <<<<40896, 3685>>, <<"None", "input_messages_filter_video", "None">>>>,
    <<<<20725, 50066>>, <<"None", "input_messages_filter_voice", "None">>>>,
    <<<<42025, 47238>>, <<"None", "input_notify_all_v_0_1_317">>>>,
    <<<<45531, 31870>>, <<"None", "input_notify_broadcasts", "None">>>>,
    <<<<19093, 59470>>, <<"None", "input_notify_chats", "None">>>>,
    <<<<19853, 57032>>, <<"None", "input_notify_geo_chat_peer_v_0_1_317">>>>,
    <<<<47292, 23308>>, <<"None", "input_notify_peer", "None">>>>,
    <<<<6459, 17431>>, <<"None", "input_notify_users", "None">>>>,
    <<<<13335, 55080>>, <<"None", "input_payment_credentials", "None">>>>,
    <<<<51717, 54542>>, <<"None", "input_payment_credentials_android_pay", "None">>>>,
    <<<<49422, 45775>>, <<"None", "input_payment_credentials_saved", "None">>>>,
    <<<<8365, 44792>>, <<"None", "input_peer_channel", "None">>>>,
    <<<<40085, 63419>>, <<"None", "input_peer_channel_from_message", "None">>>>,
    <<<<6043, 59491>>, <<"None", "input_peer_chat", "None">>>>,
    <<<<4131, 56296>>, <<"None", "input_peer_contact_v_0_1_317">>>>,
    <<<<32571, 6378>>, <<"None", "input_peer_empty", "None">>>>,
    <<<<39748, 29477>>, <<"None", "input_peer_foreign_v_0_1_317">>>>,
    <<<<59498, 11380>>, <<"None", "input_peer_notify_events_all_v_0_1_317">>>>,
    <<<<61488, 25816>>, <<"None", "input_peer_notify_events_empty_v_0_1_317">>>>,
    <<<<39997, 6542>>, <<"None", "input_peer_notify_settings", "None">>>>,
    <<<<18082, 52888>>, <<"None", "input_peer_notify_settings_v_0_1_317">>>>,
    <<<<10198, 39319>>, <<"None", "input_peer_photo_file_location", "None">>>>,
    <<<<32160, 32457>>, <<"None", "input_peer_self", "None">>>>,
    <<<<31630, 32230>>, <<"None", "input_peer_user", "None">>>>,
    <<<<6074, 58086>>, <<"None", "input_peer_user_from_message", "None">>>>,
    <<<<7734, 65005>>, <<"None", "input_phone_call", "None">>>>,
    <<<<62354, 47092>>, <<"None", "input_phone_contact", "None">>>>,
    <<<<15283, 47434>>, <<"None", "input_photo", "None">>>>,
    <<<<55697, 21285>>, <<"None", "input_photo_crop_v_0_1_317">>>>,
    <<<<44518, 45060>>, <<"None", "input_photo_crop_auto_v_0_1_317">>>>,
    <<<<7383, 48909>>, <<"None", "input_photo_empty", "None">>>>,
    <<<<16408, 8190>>, <<"None", "input_photo_file_location", "None">>>>,
    <<<<64405, 50884>>, <<"None", "input_photo_v_0_1_317">>>>,
    <<<<53537, 39901>>, <<"None", "input_privacy_key_added_by_phone", "None">>>>,
    <<<<48635, 1062>>, <<"None", "input_privacy_key_chat_invite", "None">>>>,
    <<<<42205, 19464>>, <<"None", "input_privacy_key_forwards", "None">>>>,
    <<<<64186, 56415>>, <<"None", "input_privacy_key_phone_call", "None">>>>,
    <<<<850, 56058>>, <<"None", "input_privacy_key_phone_number", "None">>>>,
    <<<<56222, 28882>>, <<"None", "input_privacy_key_phone_p2_p", "None">>>>,
    <<<<22297, 47820>>, <<"None", "input_privacy_key_profile_photo", "None">>>>,
    <<<<20374, 51992>>, <<"None", "input_privacy_key_status_timestamp", "None">>>>,
    <<<<6219, 13774>>, <<"None", "input_privacy_value_allow_all", "None">>>>,
    <<<<19585, 49594>>, <<"None", "input_privacy_value_allow_chat_participants", "None">>>>,
    <<<<3337, 57467>>, <<"None", "input_privacy_value_allow_contacts", "None">>>>,
    <<<<4892, 50815>>, <<"None", "input_privacy_value_allow_users", "None">>>>,
    <<<<54891, 26313>>, <<"None", "input_privacy_value_disallow_all", "None">>>>,
    <<<<55331, 25519>>, <<"None", "input_privacy_value_disallow_chat_participants", "None">>>>,
    <<<<2981, 8199>>, <<"None", "input_privacy_value_disallow_contacts", "None">>>>,
    <<<<36881, 1127>>, <<"None", "input_privacy_value_disallow_users", "None">>>>,
    <<<<44532, 20195>>, <<"None", "input_report_reason_child_abuse", "None">>>>,
    <<<<39817, 63802>>, <<"None", "input_report_reason_copyright", "None">>>>,
    <<<<56276, 65261>>, <<"None", "input_report_reason_geo_irrelevant", "None">>>>,
    <<<<57716, 27914>>, <<"None", "input_report_reason_other", "None">>>>,
    <<<<11865, 55586>>, <<"None", "input_report_reason_pornography", "None">>>>,
    <<<<22747, 51896>>, <<"None", "input_report_reason_spam", "None">>>>,
    <<<<7714, 51085>>, <<"None", "input_report_reason_violence", "None">>>>,
    <<<<21351, 58814>>, <<"None", "input_secure_file", "None">>>>,
    <<<<52167, 60968>>, <<"None", "input_secure_file_location", "None">>>>,
    <<<<13108, 45296>>, <<"None", "input_secure_file_uploaded", "None">>>>,
    <<<<56097, 53415>>, <<"None", "input_secure_value", "None">>>>,
    <<<<7366, 59679>>, <<"None", "input_single_media", "None">>>>,
    <<<<647, 968>>, <<"input_sticker_set_animated_emoji_struct", "input_sticker_set_animated_emoji", "None">>>>,
    <<<<59007, 21006>>, <<"input_sticker_set_dice_struct", "input_sticker_set_dice", "None">>>>,
    <<<<65462, 11157>>, <<"input_sticker_set_empty_struct", "input_sticker_set_empty", "None">>>>,
    <<<<40423, 41577>>, <<"input_sticker_set_id_struct", "input_sticker_set_id", "None">>>>,
    <<<<34332, 51360>>, <<"input_sticker_set_short_name_struct", "input_sticker_set_short_name", "None">>>>,
    <<<<3514, 60137>>, <<"None", "input_sticker_set_thumb", "None">>>>,
    <<<<1080, 34395>>, <<"None", "input_stickered_media_document", "None">>>>,
    <<<<19097, 8535>>, <<"None", "input_stickered_media_photo", "None">>>>,
    <<<<15446, 37865>>, <<"None", "input_theme", "None">>>>,
    <<<<48464, 31953>>, <<"None", "input_theme_settings", "None">>>>,
    <<<<62857, 3569>>, <<"None", "input_theme_slug", "None">>>>,
    <<<<55337, 10262>>, <<"input_user_struct", "input_user", "None">>>>,
    <<<<34537, 20325>>, <<"None", "input_user_contact_v_0_1_317">>>>,
    <<<<47496, 34511>>, <<"input_user_empty_struct", "input_user_empty", "None">>>>,
    <<<<25950, 29951>>, <<"None", "input_user_foreign_v_0_1_317">>>>,
    <<<<11537, 30103>>, <<"None", "input_user_from_message", "None">>>>,
    <<<<63425, 45375>>, <<"None", "input_user_self", "None">>>>,
    <<<<61015, 38482>>, <<"None", "input_video_v_0_1_317">>>>,
    <<<<21768, 60533>>, <<"None", "input_video_empty_v_0_1_317">>>>,
    <<<<15619, 25836>>, <<"None", "input_video_file_location_v_0_1_317">>>>,
    <<<<58928, 47481>>, <<"None", "input_wall_paper", "None">>>>,
    <<<<33831, 48044>>, <<"None", "input_wall_paper_no_file", "None">>>>,
    <<<<29193, 7296>>, <<"None", "input_wall_paper_slug", "None">>>>,
    <<<<39917, 17229>>, <<"None", "input_web_document", "None">>>>,
    <<<<40738, 8649>>, <<"None", "input_web_file_geo_point_location", "None">>>>,
    <<<<49721, 54918>>, <<"None", "input_web_file_location", "None">>>>,
    <<<<49930, 41816>>, <<"None", "invoice", "None">>>>,
    <<<<52127, 14125>>, <<"None", "invoke_after_msg_v_0_1_317">>>>,
    <<<<42680, 36831>>, <<"None", "invoke_with_layer11_v_0_1_317">>>>,
    <<<<63300, 18275>>, <<"None", "json_array", "None">>>>,
    <<<<50996, 24170>>, <<"None", "json_bool", "None">>>>,
    <<<<16237, 31592>>, <<"None", "json_null", "None">>>>,
    <<<<11232, 57252>>, <<"None", "json_number", "None">>>>,
    <<<<39361, 54429>>, <<"None", "json_object", "None">>>>,
    <<<<49374, 7129>>, <<"None", "json_object_value", "None">>>>,
    <<<<46878, 30330>>, <<"None", "json_string", "None">>>>,
    <<<<41722, 18560>>, <<"keyboard_button_struct", "keyboard_button", "None">>>>,
    <<<<45017, 16315>>, <<"keyboard_button_buy_struct", "keyboard_button_buy", "None">>>>,
    <<<<26682, 24134>>, <<"keyboard_button_callback_struct", "keyboard_button_callback", "None">>>>,
    <<<<20724, 7375>>, <<"keyboard_button_game_struct", "keyboard_button_game", "None">>>>,
    <<<<64633, 27455>>, <<"keyboard_button_request_geo_location_struct", "keyboard_button_request_geo_location", "None">>>>,
    <<<<45418, 27689>>, <<"keyboard_button_request_phone_struct", "keyboard_button_request_phone", "None">>>>,
    <<<<48071, 20829>>, <<"keyboard_button_request_poll_struct", "keyboard_button_request_poll", "None">>>>,
    <<<<30560, 35715>>, <<"keyboard_button_row_struct", "keyboard_button_row", "None">>>>,
    <<<<1384, 42824>>, <<"keyboard_button_switch_inline_struct", "keyboard_button_switch_inline", "None">>>>,
    <<<<9610, 65285>>, <<"keyboard_button_url_struct", "keyboard_button_url", "None">>>>,
    <<<<4279, 36137>>, <<"keyboard_button_url_auth_struct", "keyboard_button_url_auth", "None">>>>,
    <<<<52009, 27640>>, <<"None", "labeled_price", "None">>>>,
    <<<<62341, 49654>>, <<"None", "lang_pack_difference", "None">>>>,
    <<<<61130, 23779>>, <<"None", "lang_pack_language", "None">>>>,
    <<<<51921, 33270>>, <<"None", "lang_pack_string", "None">>>>,
    <<<<10617, 61106>>, <<"None", "lang_pack_string_deleted", "None">>>>,
    <<<<27719, 44191>>, <<"None", "lang_pack_string_pluralized", "None">>>>,
    <<<<52632, 19109>>, <<"None", "langpack_get_difference", "None">>>>,
    <<<<39605, 50574>>, <<"None", "langpack_get_lang_pack", "None">>>>,
    <<<<27225, 25858>>, <<"None", "langpack_get_language", "None">>>>,
    <<<<32783, 54653>>, <<"None", "langpack_get_languages", "None">>>>,
    <<<<11806, 58136>>, <<"None", "langpack_get_strings", "None">>>>,
    <<<<44758, 56242>>, <<"mask_coords_struct", "mask_coords", "None">>>>,
    <<<<17708, 3685>>, <<"message_struct", "message", "None">>>>,
    <<<<44009, 45054>>, <<"message_action_bot_allowed_struct", "message_action_bot_allowed", "None">>>>,
    <<<<38354, 44178>>, <<"message_action_channel_create_struct", "message_action_channel_create", "None">>>>,
    <<<<45141, 60142>>, <<"message_action_channel_migrate_from_struct", "message_action_channel_migrate_from", "None">>>>,
    <<<<18570, 29495>>, <<"message_action_chat_add_user_struct", "message_action_chat_add_user", "None">>>>,
    <<<<24124, 64587>>, <<"message_action_chat_add_user_old_struct", "message_action_chat_add_user_old", "None">>>>,
    <<<<42595, 35738>>, <<"message_action_chat_create_struct", "message_action_chat_create", "None">>>>,
    <<<<45742, 39692>>, <<"message_action_chat_delete_user_struct", "message_action_chat_delete_user", "None">>>>,
    <<<<38371, 64495>>, <<"message_action_chat_delete_photo_struct", "message_action_chat_delete_photo", "None">>>>,
    <<<<32715, 5032>>, <<"message_action_chat_edit_photo_struct", "message_action_chat_edit_photo", "None">>>>,
    <<<<46497, 52826>>, <<"message_action_chat_edit_title_struct", "message_action_chat_edit_title", "None">>>>,
    <<<<63644, 62952>>, <<"message_action_chat_joined_by_link_struct", "message_action_chat_joined_by_link", "None">>>>,
    <<<<20925, 45089>>, <<"message_action_chat_migrate_to_struct", "message_action_chat_migrate_to", "None">>>>,
    <<<<62450, 24438>>, <<"message_action_contact_sign_up_struct", "message_action_contact_sign_up", "None">>>>,
    <<<<21845, 21847>>, <<"message_action_created_broadcast_list_struct", "message_action_created_broadcast_list", "None">>>>,
    <<<<64230, 40790>>, <<"message_action_custom_action_struct", "message_action_custom_action", "None">>>>,
    <<<<46766, 63408>>, <<"message_action_empty_struct", "message_action_empty", "None">>>>,
    <<<<37543, 10358>>, <<"message_action_game_score_struct", "message_action_game_score", "None">>>>,
    <<<<3197, 21470>>, <<"None", "message_action_geo_chat_checkin_v_0_1_317">>>>,
    <<<<28419, 36540>>, <<"None", "message_action_geo_chat_create_v_0_1_317">>>>,
    <<<<31245, 32578>>, <<"message_action_group_call_struct", "message_action_group_call", "None">>>>,
    <<<<40890, 46596>>, <<"message_action_history_clear_struct", "message_action_history_clear", "None">>>>,
    <<<<21845, 22005>>, <<"message_action_login_unknown_location_struct", "message_action_login_unknown_location", "None">>>>,
    <<<<16489, 40144>>, <<"message_action_payment_sent_struct", "message_action_payment_sent", "None">>>>,
    <<<<32993, 6783>>, <<"message_action_phone_call_struct", "message_action_phone_call", "None">>>>,
    <<<<38077, 14573>>, <<"message_action_pin_message_struct", "message_action_pin_message", "None">>>>,
    <<<<18322, 37531>>, <<"message_action_screenshot_taken_struct", "message_action_screenshot_taken", "None">>>>,
    <<<<55644, 24916>>, <<"message_action_secure_values_sent_struct", "message_action_secure_values_sent", "None">>>>,
    <<<<21845, 21842>>, <<"message_action_ttl_change_struct", "message_action_ttl_change", "None">>>>,
    <<<<21845, 21840>>, <<"message_action_user_joined_struct", "message_action_user_joined", "None">>>>,
    <<<<21845, 21841>>, <<"message_action_user_updated_photo_struct", "message_action_user_updated_photo", "None">>>>,
    <<<<33765, 56916>>, <<"message_empty_struct", "message_empty", "None">>>>,
    <<<<21845, 22007>>, <<"message_encrypted_action_struct", "message_encrypted_action", "None">>>>,
    <<<<30238, 27380>>, <<"message_entity_bank_card_struct", "message_entity_bank_card", "None">>>>,
    <<<<525, 62928>>, <<"message_entity_blockquote_struct", "message_entity_blockquote", "None">>>>,
    <<<<48481, 3017>>, <<"message_entity_bold_struct", "message_entity_bold", "None">>>>,
    <<<<27887, 35527>>, <<"message_entity_bot_command_struct", "message_entity_bot_command", "None">>>>,
    <<<<19534, 29759>>, <<"message_entity_cashtag_struct", "message_entity_cashtag", "None">>>>,
    <<<<10402, 1393>>, <<"message_entity_code_struct", "message_entity_code", "None">>>>,
    <<<<25828, 30146>>, <<"message_entity_email_struct", "message_entity_email", "None">>>>,
    <<<<28515, 23309>>, <<"message_entity_hashtag_struct", "message_entity_hashtag", "None">>>>,
    <<<<33391, 35680>>, <<"message_entity_italic_struct", "message_entity_italic", "None">>>>,
    <<<<64004, 22429>>, <<"message_entity_mention_struct", "message_entity_mention", "None">>>>,
    <<<<13613, 51800>>, <<"message_entity_mention_name_struct", "message_entity_mention_name", "None">>>>,
    <<<<39785, 58187>>, <<"message_entity_phone_struct", "message_entity_phone", "None">>>>,
    <<<<29586, 19424>>, <<"message_entity_pre_struct", "message_entity_pre", "None">>>>,
    <<<<48902, 37844>>, <<"message_entity_strike_struct", "message_entity_strike", "None">>>>,
    <<<<30374, 54055>>, <<"message_entity_text_url_struct", "message_entity_text_url", "None">>>>,
    <<<<40014, 32395>>, <<"message_entity_underline_struct", "message_entity_underline", "None">>>>,
    <<<<48018, 47765>>, <<"message_entity_unknown_struct", "message_entity_unknown", "None">>>>,
    <<<<28368, 9528>>, <<"message_entity_url_struct", "message_entity_url", "None">>>>,
    <<<<1524, 26628>>, <<"message_forwarded_old_struct", "message_forwarded_old", "None">>>>,
    <<<<41831, 59158>>, <<"message_forwarded_old2_struct", "message_forwarded_old2", "None">>>>,
    <<<<13626, 26731>>, <<"message_fwd_header_struct", "message_fwd_header", "None">>>>,
    <<<<60467, 33392>>, <<"message_fwd_header_layer112_struct", "message_fwd_header_layer112", "None">>>>,
    <<<<51078, 56779>>, <<"message_fwd_header_layer68_struct", "message_fwd_header_layer68", "None">>>>,
    <<<<64223, 62636>>, <<"message_fwd_header_layer72_struct", "message_fwd_header_layer72", "None">>>>,
    <<<<21918, 48749>>, <<"message_fwd_header_layer96_struct", "message_fwd_header_layer96", "None">>>>,
    <<<<44367, 51645>>, <<"None", "message_interaction_counters", "None">>>>,
    <<<<50870, 33536>>, <<"message_media_audio_layer45_struct", "message_media_audio_layer45", "None">>>>,
    <<<<52210, 18752>>, <<"message_media_contact_struct", "message_media_contact", "None">>>>,
    <<<<24189, 12089>>, <<"message_media_contact_layer81_struct", "message_media_contact_layer81", "None">>>>,
    <<<<16254, 58763>>, <<"message_media_dice_struct", "message_media_dice", "None">>>>,
    <<<<25487, 58475>>, <<"message_media_dice_layer111_struct", "message_media_dice_layer111", "None">>>>,
    <<<<40112, 28887>>, <<"message_media_document_struct", "message_media_document", "None">>>>,
    <<<<62432, 11944>>, <<"message_media_document_layer68_struct", "message_media_document_layer68", "None">>>>,
    <<<<31812, 5331>>, <<"message_media_document_layer74_struct", "message_media_document_layer74", "None">>>>,
    <<<<12250, 8708>>, <<"message_media_document_old_struct", "message_media_document_old", "None">>>>,
    <<<<15853, 25376>>, <<"message_media_empty_struct", "message_media_empty", "None">>>>,
    <<<<64945, 36872>>, <<"message_media_game_struct", "message_media_game", "None">>>>,
    <<<<22240, 54388>>, <<"message_media_geo_struct", "message_media_geo", "None">>>>,
    <<<<31804, 9737>>, <<"message_media_geo_live_struct", "message_media_geo_live", "None">>>>,
    <<<<33877, 4935>>, <<"message_media_invoice_struct", "message_media_invoice", "None">>>>,
    <<<<26961, 20695>>, <<"message_media_photo_struct", "message_media_photo", "None">>>>,
    <<<<15756, 58685>>, <<"message_media_photo_layer68_struct", "message_media_photo_layer68", "None">>>>,
    <<<<46370, 15119>>, <<"message_media_photo_layer74_struct", "message_media_photo_layer74", "None">>>>,
    <<<<51396, 23082>>, <<"message_media_photo_old_struct", "message_media_photo_old", "None">>>>,
    <<<<19414, 59288>>, <<"message_media_poll_struct", "message_media_poll", "None">>>>,
    <<<<40836, 62622>>, <<"message_media_unsupported_struct", "message_media_unsupported", "None">>>>,
    <<<<10595, 10806>>, <<"message_media_unsupported_old_struct", "message_media_unsupported_old", "None">>>>,
    <<<<11968, 21311>>, <<"message_media_venue_struct", "message_media_venue", "None">>>>,
    <<<<30994, 46879>>, <<"message_media_venue_layer71_struct", "message_media_venue_layer71", "None">>>>,
    <<<<23503, 5749>>, <<"message_media_video_layer45_struct", "message_media_video_layer45", "None">>>>,
    <<<<41682, 17040>>, <<"message_media_video_old_struct", "message_media_video_old", "None">>>>,
    <<<<41773, 54784>>, <<"message_media_web_page_struct", "message_media_web_page", "None">>>>,
    <<<<2787, 595>>, <<"None", "message_range", "None">>>>,
    <<<<47226, 9425>>, <<"message_reactions_struct", "message_reactions", "None">>>>,
    <<<<58286, 24840>>, <<"None", "message_reactions_list", "None">>>>,
    <<<<40473, 41462>>, <<"message_service_struct", "message_service", "None">>>>,
    <<<<49259, 38407>>, <<"message_service_layer48_struct", "message_service_layer48", "None">>>>,
    <<<<40845, 24763>>, <<"message_service_old_struct", "message_service_old", "None">>>>,
    <<<<7558, 63246>>, <<"None", "message_service_old2", "None">>>>,
    <<<<53863, 56508>>, <<"None", "message_user_reaction", "None">>>>,
    <<<<41614, 21849>>, <<"None", "message_user_vote", "None">>>>,
    <<<<13879, 29744>>, <<"None", "message_user_vote_input_option", "None">>>>,
    <<<<3727, 57566>>, <<"None", "message_user_vote_multiple", "None">>>>,
    <<<<17657, 46141>>, <<"message_layer104_struct", "message_layer104", "None">>>>,
    <<<<7323, 4135>>, <<"message_layer104_2_struct", "message_layer104_2", "None">>>>,
    <<<<38793, 56004>>, <<"message_layer104_3_struct", "message_layer104_3", "None">>>>,
    <<<<51602, 57692>>, <<"None", "message_layer47", "None">>>>,
    <<<<49307, 58463>>, <<"message_layer68_struct", "message_layer68", "None">>>>,
    <<<<37085, 56337>>, <<"message_layer72_struct", "message_layer72", "None">>>>,
    <<<<8939, 27322>>, <<"None", "message_old", "None">>>>,
    <<<<22134, 39347>>, <<"None", "message_old2", "None">>>>,
    <<<<42923, 6545>>, <<"message_old3_struct", "message_old3", "None">>>>,
    <<<<49926, 805>>, <<"message_old4_struct", "message_old4", "None">>>>,
    <<<<61560, 5320>>, <<"message_old5_struct", "message_old5", "None">>>>,
    <<<<11243, 64134>>, <<"None", "message_old6", "None">>>>,
    <<<<23462, 27667>>, <<"None", "message_old7", "None">>>>,
    <<<<21845, 22010>>, <<"message_secret_struct", "message_secret", "None">>>>,
    <<<<21845, 22009>>, <<"None", "message_secret_layer72", "None">>>>,
    <<<<21845, 22008>>, <<"None", "message_secret_old", "None">>>>,
    <<<<15804, 1045>>, <<"None", "messages_accept_encryption", "None">>>>,
    <<<<63273, 60056>>, <<"None", "messages_accept_url_auth", "None">>>>,
    <<<<63904, 43529>>, <<"None", "messages_add_chat_user", "None">>>>,
    <<<<12009, 61086>>, <<"None", "messages_add_chat_user_v_0_1_317">>>>,
    <<<<46172, 27089>>, <<"None", "messages_affected_history", "None">>>>,
    <<<<47070, 14066>>, <<"None", "messages_affected_history_v_0_1_317">>>>,
    <<<<34001, 37253>>, <<"None", "messages_affected_messages", "None">>>>,
    <<<<60925, 16479>>, <<"None", "messages_all_stickers", "None">>>>,
    <<<<59494, 707>>, <<"None", "messages_all_stickers_not_modified", "None">>>>,
    <<<<20427, 43464>>, <<"None", "messages_archived_stickers", "None">>>>,
    <<<<13912, 24228>>, <<"None", "messages_bot_callback_answer", "None">>>>,
    <<<<38012, 43080>>, <<"None", "messages_bot_results", "None">>>>,
    <<<<52435, 22077>>, <<"None", "messages_bot_results_layer71", "None">>>>,
    <<<<39206, 11831>>, <<"None", "messages_channel_messages", "None">>>>,
    <<<<16617, 42>>, <<"None", "messages_chat_v_0_1_317">>>>,
    <<<<58839, 53660>>, <<"None", "messages_chat_full", "None">>>>,
    <<<<25855, 40917>>, <<"None", "messages_chats", "None">>>>,
    <<<<33104, 52184>>, <<"None", "messages_chats_v_0_1_317">>>>,
    <<<<40152, 4420>>, <<"None", "messages_chats_slice", "None">>>>,
    <<<<16045, 45499>>, <<"None", "messages_check_chat_invite", "None">>>>,
    <<<<32344, 61084>>, <<"None", "messages_clear_all_drafts", "None">>>>,
    <<<<35225, 24621>>, <<"None", "messages_clear_recent_stickers", "None">>>>,
    <<<<2507, 4718>>, <<"None", "messages_create_chat", "None">>>>,
    <<<<16797, 39662>>, <<"None", "messages_create_chat_v_0_1_317">>>>,
    <<<<57441, 7958>>, <<"None", "messages_delete_chat_user", "None">>>>,
    <<<<50117, 52515>>, <<"None", "messages_delete_chat_user_v_0_1_317">>>>,
    <<<<7169, 23305>>, <<"None", "messages_delete_history", "None">>>>,
    <<<<62712, 64353>>, <<"None", "messages_delete_history_v_0_1_317">>>>,
    <<<<58766, 38354>>, <<"None", "messages_delete_messages", "None">>>>,
    <<<<22958, 11030>>, <<"None", "messages_delete_scheduled_messages", "None">>>>,
    <<<<5362, 56586>>, <<"None", "messages_delete_messages_v_0_1_317">>>>,
    <<<<11298, 7901>>, <<"None", "messages_dh_config", "None">>>>,
    <<<<49378, 17973>>, <<"None", "messages_dh_config_not_modified", "None">>>>,
    <<<<5562, 27712>>, <<"None", "messages_dialogs", "None">>>>,
    <<<<61667, 58774>>, <<"None", "messages_dialogs_not_modified", "None">>>>,
    <<<<29152, 38131>>, <<"None", "messages_dialogs_slice", "None">>>>,
    <<<<60889, 9157>>, <<"None", "messages_discard_encryption", "None">>>>,
    <<<<57078, 1943>>, <<"None", "messages_edit_chat_about", "None">>>>,
    <<<<43494, 40750>>, <<"None", "messages_edit_chat_admin", "None">>>>,
    <<<<42374, 27457>>, <<"None", "messages_edit_chat_default_banned_rights", "None">>>>,
    <<<<51788, 31192>>, <<"None", "messages_edit_chat_photo", "None">>>>,
    <<<<55425, 33309>>, <<"None", "messages_edit_chat_photo_v_0_1_317">>>>,
    <<<<56389, 10325>>, <<"None", "messages_edit_chat_title", "None">>>>,
    <<<<46268, 26805>>, <<"None", "messages_edit_chat_title_v_0_1_317">>>>,
    <<<<18679, 6008>>, <<"None", "messages_edit_message", "None">>>>,
    <<<<53526, 62238>>, <<"None", "messages_edit_message_v_5_6_2", "None">>>>,
    <<<<3575, 21324>>, <<"None", "messages_export_chat_invite", "None">>>>,
    <<<<47615, 50523>>, <<"None", "messages_fave_sticker", "None">>>>,
    <<<<62335, 12054>>, <<"None", "messages_faved_stickers", "None">>>>,
    <<<<40591, 42707>>, <<"None", "messages_faved_stickers_not_modified", "None">>>>,
    <<<<46763, 49985>>, <<"None", "messages_featured_stickers", "None">>>>,
    <<<<50908, 3174>>, <<"None", "messages_featured_stickers_not_modified", "None">>>>,
    <<<<63645, 35045>>, <<"None", "messages_featured_stickers_v_5_15_0", "None">>>>,
    <<<<1261, 58319>>, <<"None", "messages_featured_stickers_not_modified_v_5_15_0", "None">>>>,
    <<<<13206, 15353>>, <<"None", "messages_forward_message", "None">>>>,
    <<<<1011, 62706>>, <<"None", "messages_forward_message_v_0_1_317">>>>,
    <<<<55806, 58894>>, <<"None", "messages_forward_messages", "None">>>>,
    <<<<20812, 53519>>, <<"None", "messages_forward_messages_v_0_1_317">>>>,
    <<<<28814, 405>>, <<"None", "messages_forward_messages_v_5_6_2", "None">>>>,
    <<<<17674, 7178>>, <<"None", "messages_found_gifs", "None">>>>,
    <<<<20744, 54856>>, <<"None", "messages_found_sticker_sets", "None">>>>,
    <<<<3412, 46685>>, <<"None", "messages_found_sticker_sets_not_modified", "None">>>>,
    <<<<60328, 4080>>, <<"None", "messages_get_all_chats", "None">>>>,
    <<<<27199, 36197>>, <<"None", "messages_get_all_drafts", "None">>>>,
    <<<<7318, 6321>>, <<"None", "messages_get_all_stickers", "None">>>>,
    <<<<22513, 30354>>, <<"None", "messages_get_archived_stickers", "None">>>>,
    <<<<52315, 26572>>, <<"None", "messages_get_attached_stickers", "None">>>>,
    <<<<33034, 40940>>, <<"None", "messages_get_bot_callback_answer", "None">>>>,
    <<<<15466, 41351>>, <<"None", "messages_get_chats", "None">>>>,
    <<<<3338, 18628>>, <<"None", "messages_get_common_chats", "None">>>>,
    <<<<9935, 35152>>, <<"None", "messages_get_dh_config", "None">>>>,
    <<<<61854, 55661>>, <<"None", "messages_get_dialog_filters", "None">>>>,
    <<<<8930, 20002>>, <<"None", "messages_get_dialog_unread_marks", "None">>>>,
    <<<<41198, 15219>>, <<"None", "messages_get_dialogs", "None">>>>,
    <<<<45208, 44774>>, <<"None", "messages_get_dialogs_v_5_5_0", "None">>>>,
    <<<<60623, 7670>>, <<"None", "messages_get_dialogs_v_0_1_317">>>>,
    <<<<13198, 9316>>, <<"None", "messages_get_document_by_hash", "None">>>>,
    <<<<13728, 57442>>, <<"None", "messages_get_emoji_keywords", "None">>>>,
    <<<<5384, 46767>>, <<"None", "messages_get_emoji_keywords_difference", "None">>>>,
    <<<<20121, 25522>>, <<"None", "messages_get_emoji_keywords_languages", "None">>>>,
    <<<<54705, 3110>>, <<"None", "messages_get_emoji_url", "None">>>>,
    <<<<8654, 2830>>, <<"None", "messages_get_faved_stickers", "None">>>>,
    <<<<11692, 51791>>, <<"None", "messages_get_featured_stickers", "None">>>>,
    <<<<15235, 7270>>, <<"None", "messages_get_full_chat", "None">>>>,
    <<<<59426, 25757>>, <<"None", "messages_get_game_high_scores", "None">>>>,
    <<<<44969, 10310>>, <<"None", "messages_get_history", "None">>>>,
    <<<<37537, 57135>>, <<"None", "messages_get_history_v_0_1_317">>>>,
    <<<<20814, 39325>>, <<"None", "messages_get_inline_bot_results", "None">>>>,
    <<<<3939, 24091>>, <<"None", "messages_get_inline_game_high_scores", "None">>>>,
    <<<<26040, 51103>>, <<"None", "messages_get_mask_stickers", "None">>>>,
    <<<<64934, 36150>>, <<"None", "messages_get_message_edit_data", "None">>>>,
    <<<<5553, 14186>>, <<"None", "messages_get_message_reactions_list", "None">>>>,
    <<<<16930, 64116>>, <<"None", "messages_get_messages", "None">>>>,
    <<<<35770, 37094>>, <<"None", "messages_get_messages_reactions", "None">>>>,
    <<<<50376, 42333>>, <<"None", "messages_get_messages_views", "None">>>>,
    <<<<24551, 603>>, <<"None", "messages_get_old_featured_stickers", "None">>>>,
    <<<<28203, 57424>>, <<"None", "messages_get_onlines", "None">>>>,
    <<<<58480, 48381>>, <<"None", "messages_get_peer_dialogs", "None">>>>,
    <<<<13938, 57500>>, <<"None", "messages_get_peer_settings", "None">>>>,
    <<<<54969, 19954>>, <<"None", "messages_get_pinned_dialogs", "None">>>>,
    <<<<57940, 54862>>, <<"None", "messages_get_pinned_dialogs_v_5_5_0", "None">>>>,
    <<<<29627, 25659>>, <<"None", "messages_get_poll_results", "None">>>>,
    <<<<47214, 14350>>, <<"None", "messages_get_poll_votes", "None">>>>,
    <<<<48068, 23305>>, <<"None", "messages_get_recent_locations", "None">>>>,
    <<<<24225, 37577>>, <<"None", "messages_get_recent_stickers", "None">>>>,
    <<<<33727, 15698>>, <<"None", "messages_get_saved_gifs", "None">>>>,
    <<<<58050, 26715>>, <<"None", "messages_get_scheduled_history", "None">>>>,
    <<<<48571, 1124>>, <<"None", "messages_get_scheduled_messages", "None">>>>,
    <<<<29486, 61184>>, <<"None", "messages_get_search_counters", "None">>>>,
    <<<<33068, 10982>>, <<"None", "messages_get_stats_url", "None">>>>,
    <<<<9753, 43278>>, <<"None", "messages_get_sticker_set", "None">>>>,
    <<<<1085, 20268>>, <<"None", "messages_get_stickers", "None">>>>,
    <<<<41628, 54316>>, <<"None", "messages_get_suggested_dialog_filters", "None">>>>,
    <<<<18007, 33906>>, <<"None", "messages_get_unread_mentions", "None">>>>,
    <<<<13002, 36753>>, <<"None", "messages_get_web_page", "None">>>>,
    <<<<35688, 45260>>, <<"None", "messages_get_web_page_preview", "None">>>>,
    <<<<20396, 45368>>, <<"None", "messages_hide_peer_settings_bar", "None">>>>,
    <<<<43249, 28827>>, <<"None", "messages_hide_report_spam_v_5_6_2", "None">>>>,
    <<<<39483, 64921>>, <<"None", "messages_high_scores", "None">>>>,
    <<<<27728, 1308>>, <<"None", "messages_import_chat_invite", "None">>>>,
    <<<<43303, 65221>>, <<"None", "messages_inactive_chats", "None">>>>,
    <<<<51087, 58464>>, <<"None", "messages_install_sticker_set", "None">>>>,
    <<<<49798, 55695>>, <<"None", "messages_mark_dialog_unread", "None">>>>,
    <<<<9909, 56806>>, <<"None", "messages_message_edit_data", "None">>>>,
    <<<<16206, 1608>>, <<"None", "messages_message_empty", "None">>>>,
    <<<<65424, 50199>>, <<"None", "messages_message_v_0_1_317">>>>,
    <<<<35953, 36487>>, <<"None", "messages_messages", "None">>>>,
    <<<<29779, 24353>>, <<"None", "messages_messages_not_modified", "None">>>>,
    <<<<51437, 52766>>, <<"None", "messages_messages_slice", "None">>>>,
    <<<<2884, 27363>>, <<"None", "messages_messages_slice_v_0_1_317">>>>,
    <<<<42692, 31402>>, <<"None", "messages_messages_slice_v_5_6_2", "None">>>>,
    <<<<5539, 47331>>, <<"None", "messages_migrate_chat", "None">>>>,
    <<<<13169, 50004>>, <<"None", "messages_peer_dialogs", "None">>>>,
    <<<<32587, 26890>>, <<"None", "messages_read_encrypted_history", "None">>>>,
    <<<<23313, 33062>>, <<"None", "messages_read_featured_stickers", "None">>>>,
    <<<<3632, 27962>>, <<"None", "messages_read_history", "None">>>>,
    <<<<45135, 9488>>, <<"None", "messages_read_history_v_0_1_317">>>>,
    <<<<3841, 35283>>, <<"None", "messages_read_mentions", "None">>>>,
    <<<<13991, 16247>>, <<"None", "messages_read_message_contents", "None">>>>,
    <<<<1449, 21696>>, <<"None", "messages_received_messages", "None">>>>,
    <<<<10411, 52072>>, <<"None", "messages_received_messages_v_0_1_317">>>>,
    <<<<21925, 47974>>, <<"None", "messages_received_queue", "None">>>>,
    <<<<8947, 44979>>, <<"None", "messages_recent_stickers", "None">>>>,
    <<<<2839, 63632>>, <<"None", "messages_recent_stickers_not_modified", "None">>>>,
    <<<<15130, 57143>>, <<"None", "messages_reorder_pinned_dialogs", "None">>>>,
    <<<<23377, 54847>>, <<"None", "messages_reorder_pinned_dialogs_v_5_5_0", "None">>>>,
    <<<<30771, 30521>>, <<"None", "messages_reorder_sticker_sets", "None">>>>,
    <<<<48514, 46680>>, <<"None", "messages_report", "None">>>>,
    <<<<19212, 35855>>, <<"None", "messages_report_encrypted_spam", "None">>>>,
    <<<<53013, 37595>>, <<"None", "messages_report_spam", "None">>>>,
    <<<<63053, 44867>>, <<"None", "messages_request_encryption", "None">>>>,
    <<<<58175, 22035>>, <<"None", "messages_request_url_auth", "None">>>>,
    <<<<14687, 40318>>, <<"None", "messages_restore_messages_v_0_1_317">>>>,
    <<<<48185, 57675>>, <<"None", "messages_save_draft", "None">>>>,
    <<<<12922, 12491>>, <<"None", "messages_save_gif", "None">>>>,
    <<<<14631, 6392>>, <<"None", "messages_save_recent_sticker", "None">>>>,
    <<<<11783, 2469>>, <<"None", "messages_saved_gifs", "None">>>>,
    <<<<59394, 23714>>, <<"None", "messages_saved_gifs_not_modified", "None">>>>,
    <<<<34324, 61288>>, <<"None", "messages_search", "None">>>>,
    <<<<59460, 60415>>, <<"None", "messages_search_counter", "None">>>>,
    <<<<2025, 62123>>, <<"None", "messages_search_v_0_1_317">>>>,
    <<<<49050, 30571>>, <<"None", "messages_search_gifs", "None">>>>,
    <<<<49010, 9636>>, <<"None", "messages_search_global", "None">>>>,
    <<<<40508, 44208>>, <<"None", "messages_search_global_v_5_6_2", "None">>>>,
    <<<<49847, 53387>>, <<"None", "messages_search_sticker_sets", "None">>>>,
    <<<<49011, 62682>>, <<"None", "messages_send_broadcast_v_5_6_2", "None">>>>,
    <<<<16827, 2418>>, <<"None", "messages_send_broadcast_v_0_1_317">>>>,
    <<<<43383, 26483>>, <<"None", "messages_send_encrypted", "None">>>>,
    <<<<39568, 7014>>, <<"None", "messages_send_encrypted_file", "None">>>>,
    <<<<51914, 51914>>, <<"None", "messages_send_encrypted_multi_media", "None">>>>,
    <<<<13012, 14756>>, <<"None", "messages_send_encrypted_service", "None">>>>,
    <<<<8712, 5552>>, <<"None", "messages_send_inline_bot_result", "None">>>>,
    <<<<45422, 1790>>, <<"None", "messages_send_inline_bot_result_v_5_6_2", "None">>>>,
    <<<<13457, 60329>>, <<"None", "messages_send_media", "None">>>>,
    <<<<41928, 23926>>, <<"None", "messages_send_media_v_0_1_317">>>>,
    <<<<47313, 9771>>, <<"None", "messages_send_media_v_5_6_2", "None">>>>,
    <<<<21004, 14448>>, <<"None", "messages_send_message", "None">>>>,
    <<<<19678, 2731>>, <<"None", "messages_send_message_v_0_1_317">>>>,
    <<<<64136, 17018>>, <<"None", "messages_send_message_v_5_6_2", "None">>>>,
    <<<<8341, 20783>>, <<"None", "messages_send_multi_media_v_5_6_2", "None">>>>,
    <<<<9577, 3300>>, <<"None", "messages_send_reaction", "None">>>>,
    <<<<48440, 34058>>, <<"None", "messages_send_scheduled_messages", "None">>>>,
    <<<<51581, 61472>>, <<"None", "messages_send_screenshot_notification", "None">>>>,
    <<<<4330, 24964>>, <<"None", "messages_send_vote", "None">>>>,
    <<<<53748, 54108>>, <<"None", "messages_sent_message_v_0_1_317">>>>,
    <<<<59867, 19007>>, <<"None", "messages_sent_message_link_v_0_1_317">>>>,
    <<<<38035, 65330>>, <<"None", "messages_sent_encrypted_file", "None">>>>,
    <<<<22031, 35125>>, <<"None", "messages_sent_encrypted_message", "None">>>>,
    <<<<54671, 4874>>, <<"None", "messages_set_bot_callback_answer", "None">>>>,
    <<<<30996, 20973>>, <<"None", "messages_set_encrypted_typing", "None">>>>,
    <<<<36600, 60608>>, <<"None", "messages_set_game_score", "None">>>>,
    <<<<5549, 40804>>, <<"None", "messages_set_inline_game_score", "None">>>>,
    <<<<41858, 24144>>, <<"None", "messages_set_typing", "None">>>>,
    <<<<29080, 14825>>, <<"None", "messages_set_typing_v_0_1_317">>>>,
    <<<<59103, 29560>>, <<"None", "messages_start_bot", "None">>>>,
    <<<<53370, 59174>>, <<"None", "messages_stated_message_v_0_1_317">>>>,
    <<<<43439, 10369>>, <<"None", "messages_stated_message_link_v_0_1_317">>>>,
    <<<<38548, 30907>>, <<"None", "messages_stated_messages_v_0_1_317">>>>,
    <<<<15988, 62918>>, <<"None", "messages_stated_messages_links_v_0_1_317">>>>,
    <<<<46602, 9382>>, <<"None", "messages_sticker_set", "None">>>>,
    <<<<13796, 4264>>, <<"None", "messages_sticker_set_install_result_archive", "None">>>>,
    <<<<14436, 5672>>, <<"None", "messages_sticker_set_install_result_success", "None">>>>,
    <<<<58457, 39869>>, <<"None", "messages_stickers", "None">>>>,
    <<<<61812, 39458>>, <<"None", "messages_stickers_not_modified", "None">>>>,
    <<<<42801, 57943>>, <<"None", "messages_toggle_dialog_pin", "None">>>>,
    <<<<46341, 12266>>, <<"None", "messages_toggle_sticker_sets", "None">>>>,
    <<<<63854, 21982>>, <<"None", "messages_uninstall_sticker_set", "None">>>>,
    <<<<6868, 41034>>, <<"None", "messages_update_dialog_filter", "None">>>>,
    <<<<50531, 49636>>, <<"None", "messages_update_dialog_filters_order", "None">>>>,
    <<<<53930, 63468>>, <<"None", "messages_update_pinned_message", "None">>>>,
    <<<<20567, 50327>>, <<"None", "messages_upload_encrypted_file", "None">>>>,
    <<<<20891, 49841>>, <<"None", "messages_upload_media", "None">>>>,
    <<<<2083, 63049>>, <<"None", "messages_votes_list", "None">>>>,
    <<<<29681, 63708>>, <<"None", "msg_container_v_0_1_317">>>>,
    <<<<57440, 18098>>, <<"None", "msg_copy_v_0_1_317">>>>,
    <<<<10093, 16070>>, <<"None", "msg_detailed_info_v_0_1_317">>>>,
    <<<<32925, 46815>>, <<"None", "msg_new_detailed_info_v_0_1_317">>>>,
    <<<<32134, 6664>>, <<"None", "msg_resend_req_v_0_1_317">>>>,
    <<<<25302, 46169>>, <<"None", "msgs_ack_v_0_1_317">>>>,
    <<<<36032, 53553>>, <<"None", "msgs_all_info_v_0_1_317">>>>,
    <<<<1246, 46461>>, <<"None", "msgs_state_info_v_0_1_317">>>>,
    <<<<55913, 64338>>, <<"None", "msgs_state_req_v_0_1_317">>>>,
    <<<<36378, 6005>>, <<"None", "nearest_dc", "None">>>>,
    <<<<40642, 2312>>, <<"None", "new_session_created_v_0_1_317">>>>,
    <<<<54802, 59631>>, <<"None", "notify_broadcasts", "None">>>>,
    <<<<49159, 52931>>, <<"None", "notify_chats", "None">>>>,
    <<<<40916, 3032>>, <<"None", "notify_peer", "None">>>>,
    <<<<46280, 15180>>, <<"None", "notify_users", "None">>>>,
    <<<<22131, 3020>>, <<"None", "null", "None">>>>,
    <<<<33737, 23276>>, <<"None", "p_q_inner_data_v_0_1_317">>>>,
    <<<<39013, 32525>>, <<"page_struct", "page", "None">>>>,
    <<<<52749, 14256>>, <<"page_block_anchor_struct", "page_block_anchor", "None">>>>,
    <<<<32835, 25066>>, <<"page_block_audio_struct", "page_block_audio", "None">>>>,
    <<<<12728, 6783>>, <<"page_block_audio_layer82_struct", "page_block_audio_layer82", "None">>>>,
    <<<<47791, 58848>>, <<"page_block_author_date_struct", "page_block_author_date", "None">>>>,
    <<<<15707, 25842>>, <<"page_block_author_date_layer60_struct", "page_block_author_date_layer60", "None">>>>,
    <<<<9789, 31782>>, <<"page_block_blockquote_struct", "page_block_blockquote", "None">>>>,
    <<<<61207, 20917>>, <<"page_block_channel_struct", "page_block_channel", "None">>>>,
    <<<<26016, 64077>>, <<"page_block_collage_struct", "page_block_collage", "None">>>>,
    <<<<2227, 7247>>, <<"page_block_collage_layer82_struct", "page_block_collage_layer82", "None">>>>,
    <<<<14834, 13056>>, <<"page_block_cover_struct", "page_block_cover", "None">>>>,
    <<<<30326, 35821>>, <<"page_block_details_struct", "page_block_details", "None">>>>,
    <<<<56096, 45448>>, <<"page_block_divider_struct", "page_block_divider", "None">>>>,
    <<<<43121, 36293>>, <<"page_block_embed_struct", "page_block_embed", "None">>>>,
    <<<<62041, 43019>>, <<"page_block_embed_post_struct", "page_block_embed_post", "None">>>>,
    <<<<10540, 31721>>, <<"page_block_embed_post_layer82_struct", "page_block_embed_post_layer82", "None">>>>,
    <<<<55605, 55547>>, <<"page_block_embed_layer60_struct", "page_block_embed_layer60", "None">>>>,
    <<<<52706, 209>>, <<"page_block_embed_layer82_struct", "page_block_embed_layer82", "None">>>>,
    <<<<18567, 2457>>, <<"page_block_footer_struct", "page_block_footer", "None">>>>,
    <<<<49104, 25836>>, <<"page_block_header_struct", "page_block_header", "None">>>>,
    <<<<7700, 33680>>, <<"page_block_kicker_struct", "page_block_kicker", "None">>>>,
    <<<<58600, 32785>>, <<"page_block_list_struct", "page_block_list", "None">>>>,
    <<<<14936, 51188>>, <<"page_block_list_layer82_struct", "page_block_list_layer82", "None">>>>,
    <<<<42063, 16118>>, <<"page_block_map_struct", "page_block_map", "None">>>>,
    <<<<39562, 57825>>, <<"page_block_ordered_list_struct", "page_block_ordered_list", "None">>>>,
    <<<<18042, 1894>>, <<"page_block_paragraph_struct", "page_block_paragraph", "None">>>>,
    <<<<5977, 50528>>, <<"page_block_photo_struct", "page_block_photo", "None">>>>,
    <<<<59846, 39298>>, <<"page_block_photo_layer82_struct", "page_block_photo_layer82", "None">>>>,
    <<<<49264, 55614>>, <<"page_block_preformatted_struct", "page_block_preformatted", "None">>>>,
    <<<<20292, 22227>>, <<"page_block_pullquote_struct", "page_block_pullquote", "None">>>>,
    <<<<5649, 23190>>, <<"page_block_related_articles_struct", "page_block_related_articles", "None">>>>,
    <<<<799, 38288>>, <<"page_block_slideshow_struct", "page_block_slideshow", "None">>>>,
    <<<<4876, 35171>>, <<"page_block_slideshow_layer82_struct", "page_block_slideshow_layer82", "None">>>>,
    <<<<61739, 46817>>, <<"page_block_subheader_struct", "page_block_subheader", "None">>>>,
    <<<<36858, 39455>>, <<"page_block_subtitle_struct", "page_block_subtitle", "None">>>>,
    <<<<48973, 60034>>, <<"page_block_table_struct", "page_block_table", "None">>>>,
    <<<<28843, 50173>>, <<"page_block_title_struct", "page_block_title", "None">>>>,
    <<<<4950, 32394>>, <<"page_block_unsupported_struct", "page_block_unsupported", "None">>>>,
    <<<<31887, 59318>>, <<"page_block_video_struct", "page_block_video", "None">>>>,
    <<<<55767, 6246>>, <<"page_block_video_layer82_struct", "page_block_video_layer82", "None">>>>,
    <<<<28532, 30295>>, <<"page_caption_struct", "page_caption", "None">>>>,
    <<<<55201, 40297>>, <<"page_full_layer67_struct", "page_full_layer67", "None">>>>,
    <<<<21870, 51114>>, <<"page_full_layer82_struct", "page_full_layer82", "None">>>>,
    <<<<44681, 7148>>, <<"page_layer110_struct", "page_layer110", "None">>>>,
    <<<<9696, 29692>>, <<"page_list_item_blocks_struct", "page_list_item_blocks", "None">>>>,
    <<<<47407, 46797>>, <<"page_list_item_text_struct", "page_list_item_text", "None">>>>,
    <<<<39133, 35126>>, <<"page_list_ordered_item_blocks_struct", "page_list_ordered_item_blocks", "None">>>>,
    <<<<24070, 32839>>, <<"page_list_ordered_item_text_struct", "page_list_ordered_item_text", "None">>>>,
    <<<<36334, 27716>>, <<"page_part_layer67_struct", "page_part_layer67", "None">>>>,
    <<<<36415, 40638>>, <<"page_part_layer82_struct", "page_part_layer82", "None">>>>,
    <<<<45968, 56328>>, <<"page_related_article_struct", "page_related_article", "None">>>>,
    <<<<13398, 27498>>, <<"page_table_cell_struct", "page_table_cell", "None">>>>,
    <<<<57536, 50661>>, <<"page_table_row_struct", "page_table_row", "None">>>>,
    <<<<14993, 11594>>, <<"None", "password_kdf_algo_sha256_sha256_pbkdf2_hmac_sha512iter100000_sha256_mod_pow", "None">>>>,
    <<<<54362, 45206>>, <<"None", "password_kdf_algo_unknown", "None">>>>,
    <<<<37020, 16276>>, <<"None", "payment_requested_info", "None">>>>,
    <<<<52674, 31263>>, <<"None", "payment_saved_credentials_card", "None">>>>,
    <<<<15908, 58739>>, <<"None", "payments_bank_card_data", "None">>>>,
    <<<<55357, 28865>>, <<"None", "payments_clear_saved_info", "None">>>>,
    <<<<11897, 55161>>, <<"None", "payments_get_bank_card_data", "None">>>>,
    <<<<39408, 38725>>, <<"None", "payments_get_payment_form", "None">>>>,
    <<<<41106, 43392>>, <<"None", "payments_get_payment_receipt", "None">>>>,
    <<<<8829, 33355>>, <<"None", "payments_get_saved_info", "None">>>>,
    <<<<16214, 44707>>, <<"None", "payments_payment_form", "None">>>>,
    <<<<20489, 4577>>, <<"None", "payments_payment_receipt", "None">>>>,
    <<<<20063, 33037>>, <<"None", "payments_payment_result", "None">>>>,
    <<<<55361, 4409>>, <<"None", "payments_payment_verification_needed", "None">>>>,
    <<<<27478, 47393>>, <<"None", "payments_payment_verfication_needed_v_5_6_2", "None">>>>,
    <<<<64399, 58428>>, <<"None", "payments_saved_info", "None">>>>,
    <<<<11144, 31155>>, <<"None", "payments_send_payment_form", "None">>>>,
    <<<<30474, 36468>>, <<"None", "payments_validate_requested_info", "None">>>>,
    <<<<53573, 6275>>, <<"None", "payments_validated_requested_info", "None">>>>,
    <<<<48605, 58674>>, <<"peer_channel_struct", "peer_channel", "None">>>>,
    <<<<47824, 58811>>, <<"peer_chat_struct", "peer_chat", "None">>>>,
    <<<<51782, 7005>>, <<"None", "peer_located", "None">>>>,
    <<<<27933, 60808>>, <<"None", "peer_notify_events_all_v_0_1_317">>>>,
    <<<<44501, 15539>>, <<"None", "peer_notify_events_empty_v_0_1_317">>>>,
    <<<<44880, 40224>>, <<"peer_notify_settings_struct", "peer_notify_settings", "None">>>>,
    <<<<28838, 34066>>, <<"peer_notify_settings_empty_layer77_struct", "peer_notify_settings_empty_layer77", "None">>>>,
    <<<<36190, 4590>>, <<"peer_notify_settings_layer47_struct", "peer_notify_settings_layer47", "None">>>>,
    <<<<39629, 42176>>, <<"peer_notify_settings_layer77_struct", "peer_notify_settings_layer77", "None">>>>,
    <<<<63724, 10315>>, <<"None", "peer_self_located", "None">>>>,
    <<<<29503, 10593>>, <<"peer_settings_struct", "peer_settings", "None">>>>,
    <<<<33156, 9933>>, <<"peer_settings_v_5_15_0_struct", "peer_settings_v_5_15_0", "None">>>>,
    <<<<40369, 48237>>, <<"peer_user_struct", "peer_user", "None">>>>,
    <<<<34626, 44671>>, <<"None", "phone_call", "None">>>>,
    <<<<59129, 56819>>, <<"None", "phone_call_v_5_5_0", "None">>>>,
    <<<<39292, 17738>>, <<"None", "phone_call_accepted", "None">>>>,
    <<<<27904, 15679>>, <<"None", "phone_call_accepted_v_5_5_0", "None">>>>,
    <<<<45026, 47161>>, <<"phone_call_discard_reason_allow_group_call_struct", "phone_call_discard_reason_allow_group_call", "None">>>>,
    <<<<64247, 59593>>, <<"phone_call_discard_reason_busy_struct", "phone_call_discard_reason_busy", "None">>>>,
    <<<<57493, 49568>>, <<"phone_call_discard_reason_disconnect_struct", "phone_call_discard_reason_disconnect", "None">>>>,
    <<<<22445, 50832>>, <<"phone_call_discard_reason_hangup_struct", "phone_call_discard_reason_hangup", "None">>>>,
    <<<<34276, 8961>>, <<"phone_call_discard_reason_missed_struct", "phone_call_discard_reason_missed", "None">>>>,
    <<<<20682, 19937>>, <<"phone_call_discarded_struct", "phone_call_discarded", "None">>>>,
    <<<<21350, 51477>>, <<"None", "phone_call_empty", "None">>>>,
    <<<<64647, 36808>>, <<"None", "phone_call_protocol", "None">>>>,
    <<<<41659, 13771>>, <<"None", "phone_call_protocol_layer110", "None">>>>,
    <<<<34794, 47955>>, <<"None", "phone_call_requested", "None">>>>,
    <<<<33654, 7396>>, <<"None", "phone_call_requested_v_5_5_0", "None">>>>,
    <<<<7055, 19153>>, <<"None", "phone_call_waiting", "None">>>>,
    <<<<65510, 43879>>, <<"None", "phone_call_layer86_v_5_5_0", "None">>>>,
    <<<<40268, 6080>>, <<"None", "phone_connection", "None">>>>,
    <<<<15314, 46240>>, <<"None", "phone_accept_call", "None">>>>,
    <<<<12030, 5922>>, <<"None", "phone_confirm_call", "None">>>>,
    <<<<34052, 58806>>, <<"None", "phone_create_group_call", "None">>>>,
    <<<<45771, 49600>>, <<"None", "phone_discard_call", "None">>>>,
    <<<<30932, 5030>>, <<"None", "phone_discard_call_v_5_5_0", "None">>>>,
    <<<<31351, 28981>>, <<"None", "phone_discard_group_call", "None">>>>,
    <<<<18021, 39908>>, <<"None", "phone_edit_group_call_member", "None">>>>,
    <<<<35547, 20345>>, <<"None", "phone_get_call", "None">>>>,
    <<<<21829, 8105>>, <<"None", "phone_get_call_config", "None">>>>,
    <<<<3196, 45079>>, <<"None", "phone_get_group_call", "None">>>>,
    <<<<26423, 65463>>, <<"None", "phone_group_call", "None">>>>,
    <<<<52370, 42716>>, <<"None", "phone_invite_group_call_members", "None">>>>,
    <<<<2523, 13015>>, <<"None", "phone_join_group_call", "None">>>>,
    <<<<24809, 36447>>, <<"None", "phone_leave_group_call", "None">>>>,
    <<<<60546, 57664>>, <<"None", "phone_phone_call", "None">>>>,
    <<<<6101, 20321>>, <<"None", "phone_received_call", "None">>>>,
    <<<<17151, 38637>>, <<"None", "phone_request_call", "None">>>>,
    <<<<23445, 46036>>, <<"None", "phone_request_call_v_5_5_0", "None">>>>,
    <<<<10106, 56702>>, <<"None", "phone_save_call_debug", "None">>>>,
    <<<<23018, 54823>>, <<"None", "phone_set_call_rating", "None">>>>,
    <<<<7251, 27188>>, <<"None", "phone_set_call_rating_v_5_5_0", "None">>>>,
    <<<<39139, 52666>>, <<"None", "phone_upgrade_phone_call", "None">>>>,
    <<<<64281, 31333>>, <<"photo_struct", "photo", "None">>>>,
    <<<<59815, 13562>>, <<"photo_cached_size_struct", "photo_cached_size", "None">>>>,
    <<<<9009, 45613>>, <<"photo_empty_struct", "photo_empty", "None">>>>,
    <<<<53365, 1189>>, <<"photo_layer115_struct", "photo_layer115", "None">>>>,
    <<<<30655, 46619>>, <<"photo_size_struct", "photo_size", "None">>>>,
    <<<<3607, 57916>>, <<"photo_size_empty_struct", "photo_size_empty", "None">>>>,
    <<<<52717, 17150>>, <<"photo_layer55_struct", "photo_layer55", "None">>>>,
    <<<<37512, 56617>>, <<"photo_layer82_struct", "photo_layer82", "None">>>>,
    <<<<40007, 32216>>, <<"photo_layer97_struct", "photo_layer97", "None">>>>,
    <<<<8885, 26449>>, <<"photo_old_struct", "photo_old", "None">>>>,
    <<<<50051, 32886>>, <<"photo_old2_struct", "photo_old2", "None">>>>,
    <<<<57520, 48174>>, <<"photo_stripped_size_struct", "photo_stripped_size", "None">>>>,
    <<<<34767, 32559>>, <<"None", "photos_delete_photos", "None">>>>,
    <<<<37325, 12968>>, <<"None", "photos_get_user_photos", "None">>>>,
    <<<<47086, 21820>>, <<"None", "photos_get_user_photos_v_0_1_317">>>>,
    <<<<8225, 11432>>, <<"None", "photos_photo", "None">>>>,
    <<<<36298, 27301>>, <<"None", "photos_photos", "None">>>>,
    <<<<5381, 8020>>, <<"None", "photos_photos_slice", "None">>>>,
    <<<<29396, 29740>>, <<"None", "photos_update_profile_photo", "None">>>>,
    <<<<61173, 31136>>, <<"None", "photos_update_profile_photo_v_0_1_317">>>>,
    <<<<61627, 20818>>, <<"None", "photos_update_profile_photo_v_5_15_0", "None">>>>,
    <<<<35315, 3945>>, <<"None", "photos_upload_profile_photo", "None">>>>,
    <<<<54543, 40072>>, <<"None", "photos_upload_profile_photo_v_0_1_317">>>>,
    <<<<20274, 49304>>, <<"None", "photos_upload_profile_photo_v_5_15_0", "None">>>>,
    <<<<31422, 30700>>, <<"None", "ping_v_0_1_317">>>>,
    <<<<34529, 33121>>, <<"poll_struct", "poll", "None">>>>,
    <<<<27817, 49897>>, <<"poll_answer_struct", "poll_answer", "None">>>>,
    <<<<15213, 56018>>, <<"poll_answer_voters_struct", "poll_answer_voters", "None">>>>,
    <<<<54610, 40198>>, <<"poll_layer111_struct", "poll_layer111", "None">>>>,
    <<<<47836, 49571>>, <<"poll_results_struct", "poll_results", "None">>>>,
    <<<<22357, 30810>>, <<"poll_results_layer108_struct", "poll_results_layer108", "None">>>>,
    <<<<51312, 9378>>, <<"poll_results_layer111_struct", "poll_results_layer111", "None">>>>,
    <<<<44916, 26502>>, <<"poll_to_delete_struct", "poll_to_delete", "None">>>>,
    <<<<13431, 29637>>, <<"None", "pong_v_0_1_317">>>>,
    <<<<23777, 16757>>, <<"None", "popular_contact", "None">>>>,
    <<<<7820, 43755>>, <<"None", "post_address", "None">>>>,
    <<<<17151, 54315>>, <<"None", "privacy_key_added_by_phone", "None">>>>,
    <<<<20494, 28154>>, <<"None", "privacy_key_chat_invite", "None">>>>,
    <<<<27116, 22179>>, <<"None", "privacy_key_forwards", "None">>>>,
    <<<<15718, 11131>>, <<"None", "privacy_key_phone_call", "None">>>>,
    <<<<53658, 58477>>, <<"None", "privacy_key_phone_number", "None">>>>,
    <<<<14665, 7368>>, <<"None", "privacy_key_phone_p2p", "None">>>>,
    <<<<38421, 8173>>, <<"None", "privacy_key_profile_photo", "None">>>>,
    <<<<48174, 43824>>, <<"None", "privacy_key_status_timestamp", "None">>>>,
    <<<<25922, 31618>>, <<"None", "privacy_value_allow_all", "None">>>>,
    <<<<6334, 31083>>, <<"None", "privacy_value_allow_chat_participants", "None">>>>,
    <<<<65534, 7084>>, <<"None", "privacy_value_allow_contacts", "None">>>>,
    <<<<19803, 48652>>, <<"None", "privacy_value_allow_users", "None">>>>,
    <<<<35699, 59235>>, <<"None", "privacy_value_disallow_all", "None">>>>,
    <<<<44206, 1680>>, <<"None", "privacy_value_disallow_chat_participants", "None">>>>,
    <<<<63624, 64026>>, <<"None", "privacy_value_disallow_contacts", "None">>>>,
    <<<<3199, 18871>>, <<"None", "privacy_value_disallow_users", "None">>>>,
    <<<<23480, 58641>>, <<"None", "proto_message_v_0_1_317">>>>,
    <<<<28594, 20689>>, <<"reaction_count_struct", "reaction_count", "None">>>>,
    <<<<41860, 46969>>, <<"None", "received_notify_message", "None">>>>,
    <<<<40987, 8953>>, <<"None", "recent_me_url_chat", "None">>>>,
    <<<<60233, 2077>>, <<"None", "recent_me_url_chat_invite", "None">>>>,
    <<<<48138, 22492>>, <<"None", "recent_me_url_sticker_set", "None">>>>,
    <<<<18145, 53565>>, <<"None", "recent_me_url_unknown", "None">>>>,
    <<<<36284, 13110>>, <<"None", "recent_me_url_user", "None">>>>,
    <<<<18595, 596>>, <<"reply_inline_markup_struct", "reply_inline_markup", "None">>>>,
    <<<<62480, 35488>>, <<"reply_keyboard_force_reply_struct", "reply_keyboard_force_reply", "None">>>>,
    <<<<41022, 23429>>, <<"reply_keyboard_hide_struct", "reply_keyboard_hide", "None">>>>,
    <<<<13570, 30092>>, <<"reply_keyboard_markup_struct", "reply_keyboard_markup", "None">>>>,
    <<<<55058, 58558>>, <<"None", "req_dh_params_v_0_1_317">>>>,
    <<<<24646, 38776>>, <<"None", "req_pq_v_0_1_317">>>>,
    <<<<1302, 9315>>, <<"None", "res_pq_v_0_1_317">>>>,
    <<<<53362, 44212>>, <<"restriction_reason_struct", "restriction_reason", "None">>>>,
    <<<<42042, 55479>>, <<"None", "rpc_answer_dropped_v_0_1_317">>>>,
    <<<<52600, 58758>>, <<"None", "rpc_answer_dropped_running_v_0_1_317">>>>,
    <<<<24106, 54126>>, <<"None", "rpc_answer_unknown_v_0_1_317">>>>,
    <<<<22756, 42816>>, <<"None", "rpc_drop_answer_v_0_1_317">>>>,
    <<<<8516, 51737>>, <<"None", "rpc_error_v_0_1_317">>>>,
    <<<<31460, 13045>>, <<"None", "rpc_req_error_v_0_1_317">>>>,
    <<<<62300, 27905>>, <<"None", "rpc_result_v_0_1_317">>>>,
    <<<<13296, 59975>>, <<"None", "secure_credentials_encrypted", "None">>>>,
    <<<<35562, 48835>>, <<"None", "secure_data", "None">>>>,
    <<<<57383, 31330>>, <<"None", "secure_file", "None">>>>,
    <<<<25625, 38724>>, <<"None", "secure_file_empty", "None">>>>,
    <<<<48114, 56736>>, <<"None", "secure_password_kdf_algo_pbkdf2_hmac_sha512_iter100000", "None">>>>,
    <<<<34375, 7570>>, <<"None", "secure_password_kdf_algo_sha512", "None">>>>,
    <<<<74, 34103>>, <<"None", "secure_password_kdf_algo_unknown", "None">>>>,
    <<<<8684, 23135>>, <<"None", "secure_plain_email", "None">>>>,
    <<<<32096, 39389>>, <<"None", "secure_plain_phone", "None">>>>,
    <<<<33437, 39386>>, <<"None", "secure_required_type", "None">>>>,
    <<<<628, 30644>>, <<"None", "secure_required_type_one_of", "None">>>>,
    <<<<5415, 48300>>, <<"None", "secure_secret_settings", "None">>>>,
    <<<<6271, 41162>>, <<"None", "secure_value", "None">>>>,
    <<<<34461, 30095>>, <<"None", "secure_value_error", "None">>>>,
    <<<<59556, 3033>>, <<"None", "secure_value_error_data", "None">>>>,
    <<<<31344, 2163>>, <<"None", "secure_value_error_file", "None">>>>,
    <<<<26210, 8425>>, <<"None", "secure_value_error_files", "None">>>>,
    <<<<190, 15866>>, <<"None", "secure_value_error_front_side", "None">>>>,
    <<<<34442, 10917>>, <<"None", "secure_value_error_reverse_side", "None">>>>,
    <<<<58679, 52950>>, <<"None", "secure_value_error_selfie", "None">>>>,
    <<<<41236, 18288>>, <<"None", "secure_value_error_translation_file", "None">>>>,
    <<<<13411, 28120>>, <<"None", "secure_value_error_translation_files", "None">>>>,
    <<<<60702, 52656>>, <<"None", "secure_value_hash", "None">>>>,
    <<<<52195, 7718>>, <<"secure_value_type_address_struct", "secure_value_type_address", "None">>>>,
    <<<<35091, 31757>>, <<"secure_value_type_bank_statement_struct", "secure_value_type_bank_statement", "None">>>>,
    <<<<1764, 9668>>, <<"secure_value_type_driver_license_struct", "secure_value_type_driver_license", "None">>>>,
    <<<<36412, 42990>>, <<"secure_value_type_email_struct", "secure_value_type_email", "None">>>>,
    <<<<41168, 29771>>, <<"secure_value_type_identity_card_struct", "secure_value_type_identity_card", "None">>>>,
    <<<<39332, 36643>>, <<"secure_value_type_internal_passport_struct", "secure_value_type_internal_passport", "None">>>>,
    <<<<15788, 27136>>, <<"secure_value_type_passport_struct", "secure_value_type_passport", "None">>>>,
    <<<<39395, 32874>>, <<"secure_value_type_passport_registration_struct", "secure_value_type_passport_registration", "None">>>>,
    <<<<40234, 33251>>, <<"secure_value_type_personal_details_struct", "secure_value_type_personal_details", "None">>>>,
    <<<<45856, 43739>>, <<"secure_value_type_phone_struct", "secure_value_type_phone", "None">>>>,
    <<<<35720, 13448>>, <<"secure_value_type_rental_agreement_struct", "secure_value_type_rental_agreement", "None">>>>,
    <<<<59906, 60467>>, <<"secure_value_type_temporary_registration_struct", "secure_value_type_temporary_registration", "None">>>>,
    <<<<64566, 38222>>, <<"secure_value_type_utility_bill_struct", "secure_value_type_utility_bill", "None">>>>,
    <<<<64862, 51445>>, <<"send_message_cancel_action_struct", "send_message_cancel_action", "None">>>>,
    <<<<25228, 48239>>, <<"send_message_choose_contact_action_struct", "send_message_choose_contact_action", "None">>>>,
    <<<<56682, 36680>>, <<"send_message_game_play_action_struct", "send_message_game_play_action", "None">>>>,
    <<<<5999, 35745>>, <<"send_message_geo_location_action_struct", "send_message_geo_location_action", "None">>>>,
    <<<<54575, 29687>>, <<"send_message_record_audio_action_struct", "send_message_record_audio_action", "None">>>>,
    <<<<35058, 32700>>, <<"send_message_record_round_action_struct", "send_message_record_round_action", "None">>>>,
    <<<<41351, 54895>>, <<"send_message_record_video_action_struct", "send_message_record_video_action", "None">>>>,
    <<<<5823, 29774>>, <<"send_message_typing_action_struct", "send_message_typing_action", "None">>>>,
    <<<<62289, 55211>>, <<"send_message_upload_audio_action_struct", "send_message_upload_audio_action", "None">>>>,
    <<<<59052, 35439>>, <<"send_message_upload_audio_action_old_struct", "send_message_upload_audio_action_old", "None">>>>,
    <<<<43532, 55780>>, <<"send_message_upload_document_action_struct", "send_message_upload_document_action", "None">>>>,
    <<<<36782, 59790>>, <<"send_message_upload_document_action_old_struct", "send_message_upload_document_action_old", "None">>>>,
    <<<<53715, 18982>>, <<"send_message_upload_photo_action_struct", "send_message_upload_photo_action", "None">>>>,
    <<<<39178, 15386>>, <<"send_message_upload_photo_action_old_struct", "send_message_upload_photo_action_old", "None">>>>,
    <<<<9278, 7270>>, <<"send_message_upload_round_action_struct", "send_message_upload_round_action", "None">>>>,
    <<<<59766, 15084>>, <<"send_message_upload_video_action_struct", "send_message_upload_video_action", "None">>>>,
    <<<<37380, 12279>>, <<"send_message_upload_video_action_old_struct", "send_message_upload_video_action_old", "None">>>>,
    <<<<46473, 3514>>, <<"None", "server_dh_inner_data_v_0_1_317">>>>,
    <<<<31179, 1117>>, <<"None", "server_dh_params_fail_v_0_1_317">>>>,
    <<<<53480, 1884>>, <<"None", "server_dh_params_ok_v_0_1_317">>>>,
    <<<<62724, 24351>>, <<"None", "set_client_dh_params_v_0_1_317">>>>,
    <<<<46625, 15583>>, <<"None", "shipping_option", "None">>>>,
    <<<<52035, 44254>>, <<"None", "stats_abs_value_and_prev", "None">>>>,
    <<<<48631, 33684>>, <<"None", "stats_broadcast_stats", "None">>>>,
    <<<<46647, 60847>>, <<"None", "stats_date_range_days", "None">>>>,
    <<<<43842, 17434>>, <<"None", "stats_get_broadcast_stats", "None">>>>,
    <<<<56543, 34311>>, <<"None", "stats_get_megagroup_stats", "None">>>>,
    <<<<18983, 60205>>, <<"None", "stats_graph_async", "None">>>>,
    <<<<48860, 38946>>, <<"None", "stats_graph_error", "None">>>>,
    <<<<36516, 25782>>, <<"None", "stats_graph", "None">>>>,
    <<<<24596, 62482>>, <<"None", "stats_group_top_admin", "None">>>>,
    <<<<12694, 10828>>, <<"None", "stats_group_top_inviter", "None">>>>,
    <<<<6387, 53495>>, <<"None", "stats_group_top_poster", "None">>>>,
    <<<<25117, 24480>>, <<"None", "stats_load_async_graph", "None">>>>,
    <<<<61311, 63766>>, <<"None", "stats_megagroup_stats", "None">>>>,
    <<<<52174, 12256>>, <<"None", "stats_percent_value", "None">>>>,
    <<<<18345, 29152>>, <<"None", "stats_url", "None">>>>,
    <<<<4786, 39380>>, <<"None", "sticker_pack", "None">>>>,
    <<<<61108, 28455>>, <<"None", "sticker_set", "None">>>>,
    <<<<25616, 42450>>, <<"None", "sticker_set_covered", "None">>>>,
    <<<<13319, 58651>>, <<"None", "sticker_set_multi_covered", "None">>>>,
    <<<<52528, 15169>>, <<"None", "sticker_set_layer75", "None">>>>,
    <<<<21893, 41273>>, <<"None", "sticker_set_layer96", "None">>>>,
    <<<<27280, 48311>>, <<"None", "sticker_set_layer97", "None">>>>,
    <<<<42916, 15127>>, <<"None", "sticker_set_old", "None">>>>,
    <<<<51937, 43743>>, <<"None", "storage_file_gif", "None">>>>,
    <<<<126, 65038>>, <<"None", "storage_file_jpeg", "None">>>>,
    <<<<19209, 60348>>, <<"None", "storage_file_mov", "None">>>>,
    <<<<21130, 1655>>, <<"None", "storage_file_mp3", "None">>>>,
    <<<<46030, 41188>>, <<"None", "storage_file_mp4", "None">>>>,
    <<<<16572, 28498>>, <<"None", "storage_file_partial", "None">>>>,
    <<<<44574, 20621>>, <<"None", "storage_file_pdf", "None">>>>,
    <<<<2639, 25536>>, <<"None", "storage_file_png", "None">>>>,
    <<<<43670, 15109>>, <<"None", "storage_file_unknown", "None">>>>,
    <<<<4225, 17996>>, <<"None", "storage_file_webp", "None">>>>,
    <<<<13653, 14178>>, <<"text_anchor_struct", "text_anchor", "None">>>>,
    <<<<26404, 43972>>, <<"text_bold_struct", "text_bold", "None">>>>,
    <<<<32354, 24791>>, <<"text_concat_struct", "text_concat", "None">>>>,
    <<<<56922, 3542>>, <<"text_email_struct", "text_email", "None">>>>,
    <<<<56381, 33359>>, <<"text_empty_struct", "text_empty", "None">>>>,
    <<<<27711, 6585>>, <<"text_fixed_struct", "text_fixed", "None">>>>,
    <<<<2076, 53071>>, <<"text_image_struct", "text_image", "None">>>>,
    <<<<55570, 42396>>, <<"text_italic_struct", "text_italic", "None">>>>,
    <<<<843, 34337>>, <<"text_marked_struct", "text_marked", "None">>>>,
    <<<<7371, 38506>>, <<"text_phone_struct", "text_phone", "None">>>>,
    <<<<29766, 38112>>, <<"text_plain_struct", "text_plain", "None">>>>,
    <<<<39928, 48021>>, <<"text_strike_struct", "text_strike", "None">>>>,
    <<<<60778, 34052>>, <<"text_subscript_struct", "text_subscript", "None">>>>,
    <<<<51195, 24065>>, <<"text_superscript_struct", "text_superscript", "None">>>>,
    <<<<49446, 8900>>, <<"text_underline_struct", "text_underline", "None">>>>,
    <<<<15400, 33985>>, <<"text_url_struct", "text_url", "None">>>>,
    <<<<655, 4372>>, <<"None", "theme", "None">>>>,
    <<<<18493, 9996>>, <<"None", "theme_document_not_modified_layer106", "None">>>>,
    <<<<39956, 38986>>, <<"theme_settings_struct", "theme_settings", "None">>>>,
    <<<<63449, 3296>>, <<"None", "theme_layer106", "None">>>>,
    <<<<60877, 49243>>, <<"None", "top_peer", "None">>>>,
    <<<<5254, 30690>>, <<"None", "top_peer_category_bots_inline", "None">>>>,
    <<<<43878, 7003>>, <<"None", "top_peer_category_bots_p_m", "None">>>>,
    <<<<5661, 38440>>, <<"None", "top_peer_category_channels", "None">>>>,
    <<<<1591, 47085>>, <<"None", "top_peer_category_correspondents", "None">>>>,
    <<<<64494, 49392>>, <<"None", "top_peer_category_forward_chats", "None">>>>,
    <<<<43072, 27817>>, <<"None", "top_peer_category_forward_users", "None">>>>,
    <<<<48407, 41290>>, <<"None", "top_peer_category_groups", "None">>>>,
    <<<<64387, 17041>>, <<"None", "top_peer_category_peers", "None">>>>,
    <<<<7798, 42892>>, <<"None", "top_peer_category_phone_calls", "None">>>>,
    <<<<28521, 2403>>, <<"None", "update_activation_v_0_1_317">>>>,
    <<<<46804, 22102>>, <<"None", "update_channel", "None">>>>,
    <<<<28891, 26679>>, <<"None", "update_channel_available_messages", "None">>>>,
    <<<<39073, 11083>>, <<"None", "update_channel_message_views", "None">>>>,
    <<<<26066, 46180>>, <<"None", "update_channel_participant", "None">>>>,
    <<<<39001, 9333>>, <<"None", "update_channel_pinned_message", "None">>>>,
    <<<<35209, 15173>>, <<"None", "update_channel_read_messages_contents", "None">>>>,
    <<<<60164, 26619>>, <<"None", "update_channel_too_long", "None">>>>,
    <<<<16503, 6400>>, <<"None", "update_channel_web_page", "None">>>>,
    <<<<21696, 6224>>, <<"None", "update_chat_default_banned_rights", "None">>>>,
    <<<<59979, 3676>>, <<"None", "update_chat_participant_add", "None">>>>,
    <<<<14862, 60194>>, <<"None", "update_chat_participant_add_v_0_1_317">>>>,
    <<<<46736, 6489>>, <<"None", "update_chat_participant_admin", "None">>>>,
    <<<<28255, 35874>>, <<"None", "update_chat_participant_delete", "None">>>>,
    <<<<1910, 4504>>, <<"None", "update_chat_participants", "None">>>>,
    <<<<57613, 45897>>, <<"None", "update_chat_pinned_message", "None">>>>,
    <<<<39525, 59935>>, <<"None", "update_chat_user_typing", "None">>>>,
    <<<<15430, 53222>>, <<"None", "update_chat_user_typing_v_0_1_317">>>>,
    <<<<41513, 56582>>, <<"None", "update_config", "None">>>>,
    <<<<40238, 26565>>, <<"None", "update_contact_link", "None">>>>,
    <<<<20900, 35482>>, <<"None", "update_contact_link_v_0_1_317">>>>,
    <<<<9589, 48057>>, <<"None", "update_contact_registered_v_0_1_317">>>>,
    <<<<28804, 42942>>, <<"None", "update_contacts_reset", "None">>>>,
    <<<<36446, 39027>>, <<"None", "update_dc_options", "None">>>>,
    <<<<50037, 8649>>, <<"None", "update_delete_channel_messages", "None">>>>,
    <<<<41485, 45285>>, <<"None", "update_delete_messages", "None">>>>,
    <<<<43307, 65062>>, <<"None", "update_delete_messages_v_0_1_317">>>>,
    <<<<36998, 27886>>, <<"None", "update_delete_scheduled_messages", "None">>>>,
    <<<<9983, 56957>>, <<"None", "update_dialog_filter", "None">>>>,
    <<<<42455, 8453>>, <<"None", "update_dialog_filter_order", "None">>>>,
    <<<<13572, 37199>>, <<"None", "update_dialog_filters", "None">>>>,
    <<<<28271, 58652>>, <<"None", "update_dialog_pinned", "None">>>>,
    <<<<6610, 32572>>, <<"None", "update_dialog_pinned_v_5_5_0", "None">>>>,
    <<<<57700, 22979>>, <<"None", "update_dialog_unread_mark", "None">>>>,
    <<<<60971, 47465>>, <<"None", "update_draft_message", "None">>>>,
    <<<<6975, 19959>>, <<"None", "update_edit_channel_message", "None">>>>,
    <<<<58371, 28835>>, <<"None", "update_edit_message", "None">>>>,
    <<<<5904, 61782>>, <<"None", "update_encrypted_chat_typing", "None">>>>,
    <<<<14590, 9655>>, <<"None", "update_encrypted_messages_read", "None">>>>,
    <<<<46242, 59533>>, <<"None", "update_encryption", "None">>>>,
    <<<<58641, 39277>>, <<"None", "update_faved_stickers", "None">>>>,
    <<<<6454, 3520>>, <<"None", "update_folder_peers", "None">>>>,
    <<<<34591, 47417>>, <<"None", "update_geo_live_viewed", "None">>>>,
    <<<<34302, 34541>>, <<"None", "update_group_call", "None">>>>,
    <<<<1406, 44744>>, <<"None", "update_group_call_participant", "None">>>>,
    <<<<22018, 12109>>, <<"None", "update_lang_pack", "None">>>>,
    <<<<18006, 612>>, <<"None", "update_lang_pack_too_long", "None">>>>,
    <<<<22095, 59025>>, <<"None", "update_login_token", "None">>>>,
    <<<<20112, 49110>>, <<"None", "update_message_i_d", "None">>>>,
    <<<<44193, 25979>>, <<"None", "update_message_poll", "None">>>>,
    <<<<5447, 39107>>, <<"None", "update_message_reactions", "None">>>>,
    <<<<36614, 21146>>, <<"None", "update_new_authorization_v_0_1_317">>>>,
    <<<<25274, 1241>>, <<"None", "update_new_channel_message", "None">>>>,
    <<<<4796, 48538>>, <<"None", "update_new_encrypted_message", "None">>>>,
    <<<<23144, 58359>>, <<"None", "update_new_geo_chat_message_v_0_1_317">>>>,
    <<<<7979, 2813>>, <<"None", "update_new_message", "None">>>>,
    <<<<314, 48563>>, <<"None", "update_new_message_v_0_1_317">>>>,
    <<<<14757, 7675>>, <<"None", "update_new_scheduled_message", "None">>>>,
    <<<<26762, 12458>>, <<"None", "update_new_sticker_set", "None">>>>,
    <<<<48834, 26863>>, <<"None", "update_notify_settings", "None">>>>,
    <<<<46255, 53168>>, <<"None", "update_peer_located", "None">>>>,
    <<<<27262, 29542>>, <<"None", "update_peer_settings", "None">>>>,
    <<<<43791, 27422>>, <<"None", "update_phone_call", "None">>>>,
    <<<<9825, 48905>>, <<"None", "update_phone_call_signaling_data", "None">>>>,
    <<<<64015, 15522>>, <<"None", "update_pinned_dialogs", "None">>>>,
    <<<<59980, 46683>>, <<"None", "update_pinned_dialogs_v_5_5_0", "None">>>>,
    <<<<60987, 10026>>, <<"None", "update_privacy", "None">>>>,
    <<<<13067, 21540>>, <<"None", "update_read_channel_inbox", "None">>>>,
    <<<<16916, 62335>>, <<"None", "update_read_channel_inbox_v_5_5_0", "None">>>>,
    <<<<9686, 51655>>, <<"None", "update_read_channel_outbox", "None">>>>,
    <<<<22301, 10050>>, <<"None", "update_read_featured_stickers", "None">>>>,
    <<<<40087, 20447>>, <<"None", "update_read_history_inbox", "None">>>>,
    <<<<39265, 64860>>, <<"None", "update_read_history_inbox_v_5_5_0", "None">>>>,
    <<<<12079, 8639>>, <<"None", "update_read_history_outbox", "None">>>>,
    <<<<26817, 14643>>, <<"None", "update_read_messages_contents", "None">>>>,
    <<<<50788, 40497>>, <<"None", "update_read_messages_v_0_1_317">>>>,
    <<<<39490, 11296>>, <<"None", "update_recent_stickers", "None">>>>,
    <<<<53597, 57421>>, <<"None", "update_restore_messages_v_0_1_317">>>>,
    <<<<37749, 13342>>, <<"None", "update_saved_gifs", "None">>>>,
    <<<<60388, 26649>>, <<"None", "update_service_notification", "None">>>>,
    <<<<30932, 57025>>, <<"None", "update_short", "None">>>>,
    <<<<5761, 9864>>, <<"None", "update_short_chat_message", "None">>>>,
    <<<<11055, 48462>>, <<"None", "update_short_chat_message_v_0_1_317">>>>,
    <<<<37199, 48913>>, <<"None", "update_short_message", "None">>>>,
    <<<<54260, 22404>>, <<"None", "update_short_message_v_0_1_317">>>>,
    <<<<4593, 13084>>, <<"None", "update_short_sent_message", "None">>>>,
    <<<<17326, 15852>>, <<"None", "update_sticker_sets", "None">>>>,
    <<<<2994, 53761>>, <<"None", "update_sticker_sets_order", "None">>>>,
    <<<<33302, 64419>>, <<"None", "update_theme", "None">>>>,
    <<<<33004, 59418>>, <<"None", "update_user_blocked", "None">>>>,
    <<<<42803, 11123>>, <<"None", "update_user_name", "None">>>>,
    <<<<55842, 55725>>, <<"None", "update_user_name_v_0_1_317">>>>,
    <<<<4793, 16763>>, <<"None", "update_user_phone", "None">>>>,
    <<<<38193, 15116>>, <<"None", "update_user_photo", "None">>>>,
    <<<<19523, 55832>>, <<"None", "update_user_pinned_message", "None">>>>,
    <<<<7163, 55331>>, <<"None", "update_user_status", "None">>>>,
    <<<<23624, 26919>>, <<"None", "update_user_typing", "None">>>>,
    <<<<27562, 34056>>, <<"None", "update_user_typing_v_0_1_317">>>>,
    <<<<32649, 4627>>, <<"None", "update_web_page", "None">>>>,
    <<<<29870, 16960>>, <<"None", "updates", "None">>>>,
    <<<<29275, 1219>>, <<"None", "updates_combined", "None">>>>,
    <<<<58135, 44926>>, <<"None", "updates_too_long", "None">>>>,
    <<<<8292, 26446>>, <<"None", "updates_channel_difference", "None">>>>,
    <<<<15889, 45051>>, <<"None", "updates_channel_difference_empty", "None">>>>,
    <<<<42172, 50942>>, <<"None", "updates_channel_difference_too_long", "None">>>>,
    <<<<27293, 31541>>, <<"None", "updates_channel_difference_too_long_v_5_5_0", "None">>>>,
    <<<<244, 40096>>, <<"None", "updates_difference", "None">>>>,
    <<<<23925, 41272>>, <<"None", "updates_difference_empty", "None">>>>,
    <<<<43259, 6529>>, <<"None", "updates_difference_slice", "None">>>>,
    <<<<19198, 36717>>, <<"None", "updates_difference_too_long", "None">>>>,
    <<<<791, 15736>>, <<"None", "updates_get_channel_difference", "None">>>>,
    <<<<9619, 38481>>, <<"None", "updates_get_difference", "None">>>>,
    <<<<2564, 5269>>, <<"None", "updates_get_difference_v_0_1_317">>>>,
    <<<<60884, 34858>>, <<"None", "updates_get_state", "None">>>>,
    <<<<42348, 10814>>, <<"None", "updates_state", "None">>>>,
    <<<<43423, 51791>>, <<"None", "upload_cdn_file", "None">>>>,
    <<<<61096, 58478>>, <<"None", "upload_cdn_file_reupload_needed", "None">>>>,
    <<<<2410, 6357>>, <<"None", "upload_file", "None">>>>,
    <<<<61836, 55876>>, <<"None", "upload_file_cdn_redirect", "None">>>>,
    <<<<8192, 48323>>, <<"None", "upload_get_cdn_file", "None">>>>,
    <<<<19877, 16945>>, <<"None", "upload_get_cdn_file_hashes", "None">>>>,
    <<<<45402, 39676>>, <<"None", "upload_get_file", "None">>>>,
    <<<<58278, 53173>>, <<"None", "upload_get_file_v_5_6_2", "None">>>>,
    <<<<50946, 22833>>, <<"None", "upload_get_file_hashes", "None">>>>,
    <<<<9446, 33165>>, <<"None", "upload_get_web_file", "None">>>>,
    <<<<39719, 21672>>, <<"None", "upload_reupload_cdn_file", "None">>>>,
    <<<<56955, 26429>>, <<"None", "upload_save_big_file_part", "None">>>>,
    <<<<45828, 42529>>, <<"None", "upload_save_file_part", "None">>>>,
    <<<<8679, 21436>>, <<"None", "upload_web_file", "None">>>>,
    <<<<36748, 3662>>, <<"None", "url_auth_result_accepted", "None">>>>,
    <<<<43478, 56095>>, <<"None", "url_auth_result_default", "None">>>>,
    <<<<37587, 14862>>, <<"None", "url_auth_result_request", "None">>>>,
    <<<<37764, 22721>>, <<"user_struct", "user", "None">>>>,
    <<<<62203, 33561>>, <<"user_contact_old_struct", "user_contact_old", "None">>>>,
    <<<<51891, 24088>>, <<"user_contact_old2_struct", "user_contact_old2", "None">>>>,
    <<<<45722, 55244>>, <<"user_deleted_old_struct", "user_deleted_old", "None">>>>,
    <<<<54785, 28026>>, <<"user_deleted_old2_struct", "user_deleted_old2", "None">>>>,
    <<<<8194, 20666>>, <<"user_empty_struct", "user_empty", "None">>>>,
    <<<<21012, 51357>>, <<"user_foreign_old_struct", "user_foreign_old", "None">>>>,
    <<<<1884, 63400>>, <<"user_foreign_old2_struct", "user_foreign_old2", "None">>>>,
    <<<<60913, 31762>>, <<"user_full_struct", "user_full", "None">>>>,
    <<<<29781, 22988>>, <<"user_full_layer101_struct", "user_full_layer101", "None">>>>,
    <<<<36516, 43137>>, <<"user_full_layer98_struct", "user_full_layer98", "None">>>>,
    <<<<30480, 38362>>, <<"None", "user_full_v_0_1_317">>>>,
    <<<<11795, 62659>>, <<"user_layer104_struct", "user_layer104", "None">>>>,
    <<<<53517, 38810>>, <<"user_layer65_struct", "user_layer65", "None">>>>,
    <<<<27091, 43814>>, <<"user_profile_photo_struct", "user_profile_photo", "None">>>>,
    <<<<20241, 47841>>, <<"user_profile_photo_empty_struct", "user_profile_photo_empty", "None">>>>,
    <<<<54617, 55496>>, <<"user_profile_photo_layer97_struct", "user_profile_photo_layer97", "None">>>>,
    <<<<60631, 23948>>, <<"user_profile_photo_layer115_struct", "user_profile_photo_layer115", "None">>>>,
    <<<<39181, 5267>>, <<"user_profile_photo_old_struct", "user_profile_photo_old", "None">>>>,
    <<<<8936, 52912>>, <<"user_request_old_struct", "user_request_old", "None">>>>,
    <<<<55756, 50415>>, <<"user_request_old2_struct", "user_request_old2", "None">>>>,
    <<<<29189, 13804>>, <<"user_self_old_struct", "user_self_old", "None">>>>,
    <<<<28679, 46161>>, <<"user_self_old2_struct", "user_self_old2", "None">>>>,
    <<<<7264, 58888>>, <<"user_self_old3_struct", "user_self_old3", "None">>>>,
    <<<<2512, 20553>>, <<"user_status_empty_struct", "user_status_empty", "None">>>>,
    <<<<30699, 51010>>, <<"user_status_last_month_struct", "user_status_last_month", "None">>>>,
    <<<<1983, 2556>>, <<"user_status_last_week_struct", "user_status_last_week", "None">>>>,
    <<<<140, 28735>>, <<"user_status_offline_struct", "user_status_offline", "None">>>>,
    <<<<60857, 14665>>, <<"user_status_online_struct", "user_status_online", "None">>>>,
    <<<<57967, 17137>>, <<"user_status_recently_struct", "user_status_recently", "None">>>>,
    <<<<8932, 36978>>, <<"user_old_struct", "user_old", "None">>>>,
    <<<<51760, 42417>>, <<"None", "users_get_full_user", "None">>>>,
    <<<<3473, 42312>>, <<"None", "users_get_users", "None">>>>,
    <<<<49414, 22696>>, <<"video_empty_layer45_struct", "video_empty_layer45", "None">>>>,
    <<<<21845, 21843>>, <<"video_encrypted_struct", "video_encrypted", "None">>>>,
    <<<<63272, 34771>>, <<"video_layer45_struct", "video_layer45", "None">>>>,
    <<<<23044, 42143>>, <<"video_old_struct", "video_old", "None">>>>,
    <<<<14479, 41873>>, <<"video_old2_struct", "video_old2", "None">>>>,
    <<<<61087, 19021>>, <<"video_old3_struct", "video_old3", "None">>>>,
    <<<<59441, 50518>>, <<"video_size_struct", "video_size", "None">>>>,
    <<<<17243, 47495>>, <<"video_size_layer115_struct", "video_size_layer115", "None">>>>,
    <<<<42039, 50157>>, <<"wall_paper_struct", "wall_paper", "None">>>>,
    <<<<61519, 37356>>, <<"wall_paper_layer94_struct", "wall_paper_layer94", "None">>>>,
    <<<<35572, 2853>>, <<"wall_paper_no_file_struct", "wall_paper_no_file", "None">>>>,
    <<<<1288, 27896>>, <<"wall_paper_settings_struct", "wall_paper_settings", "None">>>>,
    <<<<41263, 16568>>, <<"wall_paper_settings_layer106_struct", "wall_paper_settings_layer106", "None">>>>,
    <<<<25361, 32548>>, <<"None", "wall_paper_solid_v_0_1_317">>>>,
    <<<<52400, 13911>>, <<"None", "wall_paper_v_0_1_317">>>>,
    <<<<2903, 62278>>, <<"None", "wallet_get_key_secret_salt", "None">>>>,
    <<<<30275, 34519>>, <<"None", "wallet_lite_response", "None">>>>,
    <<<<56648, 19812>>, <<"None", "wallet_secret_salt", "None">>>>,
    <<<<58057, 54078>>, <<"None", "wallet_send_lite_request", "None">>>>,
    <<<<51913, 17394>>, <<"None", "web_authorization", "None">>>>,
    <<<<7255, 3793>>, <<"web_document_struct", "web_document", "None">>>>,
    <<<<63944, 48326>>, <<"web_document_no_proxy_struct", "web_document_no_proxy", "None">>>>,
    <<<<50714, 52184>>, <<"web_document_layer81_struct", "web_document_layer81", "None">>>>,
    <<<<59548, 17842>>, <<"web_page_struct", "web_page", "None">>>>,
    <<<<21685, 26135>>, <<"web_page_attribute_theme_struct", "web_page_attribute_theme", "None">>>>,
    <<<<60180, 30696>>, <<"web_page_empty_struct", "web_page_empty", "None">>>>,
    <<<<24327, 46268>>, <<"web_page_layer104_struct", "web_page_layer104", "None">>>>,
    <<<<64100, 57714>>, <<"web_page_layer107_struct", "web_page_layer107", "None">>>>,
    <<<<51842, 3799>>, <<"web_page_layer58_struct", "web_page_layer58", "None">>>>,
    <<<<29457, 51729>>, <<"web_page_not_modified_struct", "web_page_not_modified", "None">>>>,
    <<<<34180, 38003>>, <<"web_page_not_modified_layer110_struct", "web_page_not_modified_layer110", "None">>>>,
    <<<<50566, 55836>>, <<"web_page_pending_struct", "web_page_pending", "None">>>>,
    <<<<54298, 20839>>, <<"web_page_url_pending_struct", "web_page_url_pending", "None">>>>,
    <<<<41758, 41141>>, <<"web_page_old_struct", "web_page_old", "None">>>>,
    <<<<7349, 50197>>, <<"None", "_vector", "None">>>>
  }

(***************************************************************************)
(* struct_headers: for every decoder method named in tdss_callbacks, the   *)
(* value of its 'sname' field, the constant its 'signature' field asserts  *)
(* (<<>> when the shape has no 'signature' field) and whether its last     *)
(* field is 'UNPARSED' / GreedyBytes.                                      *)
(***************************************************************************)
struct_headers ==
  {
    <<"audio_empty_layer45_struct", "audio_empty_layer45", <<<<22633, 35032>>>>, FALSE>>,
    <<"audio_encrypted_struct", "audio_encrypted", <<<<21845, 22006>>>>, FALSE>>,
    <<"audio_layer45_struct", "audio_layer45", <<<<63971, 20565>>>>, FALSE>>,
    <<"audio_old_struct", "audio_old", <<<<17012, 9703>>>>, FALSE>>,
    <<"audio_old2_struct", "audio_old2", <<<<51116, 25750>>>>, FALSE>>,
    <<"base_theme_arctic_struct", "base_theme_arctic", <<<<23313, 4698>>>>, FALSE>>,
    <<"base_theme_classic_struct", "base_theme_classic", <<<<50081, 9314>>>>, FALSE>>,
    <<"base_theme_day_struct", "base_theme_day", <<<<64472, 5768>>>>, FALSE>>,
    <<"base_theme_night_struct", "base_theme_night", <<<<47027, 7848>>>>, FALSE>>,
    <<"base_theme_tinted_struct", "base_theme_tinted", <<<<27999, 30702>>>>, FALSE>>,
    <<"bot_command_struct", "bot_command", <<<<49786, 51399>>>>, FALSE>>,
    <<"bot_info_struct", "bot_info", <<<<39144, 7482>>>>, FALSE>>,
    <<"bot_info_empty_layer48_struct", "bot_info_empty_layer48", <<<<47918, 14286>>>>, FALSE>>,
    <<"bot_info_layer48_struct", "bot_info_layer48", <<<<2511, 22621>>>>, FALSE>>,
    <<"channel_struct", "channel", <<<<54042, 38430>>>>, FALSE>>,
    <<"channel_admin_rights_layer92_struct", "channel_admin_rights_layer92", <<<<23932, 60325>>>>, FALSE>>,
    <<"channel_banned_rights_layer92_struct", "channel_banned_rights_layer92", <<<<22735, 16969>>>>, FALSE>>,
    <<"channel_forbidden_struct", "channel_forbidden", <<<<10397, 42802>>>>, FALSE>>,
    <<"channel_forbidden_layer52_struct", "channel_forbidden_layer52", <<<<11653, 33580>>>>, FALSE>>,
    <<"channel_forbidden_layer67_struct", "channel_forbidden_layer67", <<<<34103, 30799>>>>, FALSE>>,
    <<"channel_layer104_struct", "channel_layer104", <<<<19955, 2100>>>>, FALSE>>,
    <<"channel_layer48_struct", "channel_layer48", <<<<19227, 29958>>>>, FALSE>>,
    <<"channel_layer67_struct", "channel_layer67", <<<<41293, 51794>>>>, FALSE>>,
    <<"channel_layer72_struct", "channel_layer72", <<<<3252, 19228>>>>, FALSE>>,
    <<"channel_layer77_struct", "channel_layer77", <<<<17675, 28949>>>>, FALSE>>,
    <<"channel_layer92_struct", "channel_layer92", <<<<51337, 29868>>>>, FALSE>>,
    <<"channel_old_struct", "channel_old", <<<<26510, 38279>>>>, FALSE>>,
    <<"chat_struct", "chat", <<<<15322, 7134>>>>, FALSE>>,
    <<"chat_admin_rights_struct", "chat_admin_rights", <<<<24498, 9429>>>>, FALSE>>,
    <<"chat_banned_rights_struct", "chat_banned_rights", <<<<40722, 1048>>>>, FALSE>>,
    <<"chat_empty_struct", "chat_empty", <<<<39842, 55296>>>>, FALSE>>,
    <<"chat_forbidden_struct", "chat_forbidden", <<<<1842, 35803>>>>, FALSE>>,
    <<"chat_forbidden_old_struct", "chat_forbidden_old", <<<<64268, 52289>>>>, FALSE>>,
    <<"chat_layer92_struct", "chat_layer92", <<<<55580, 56660>>>>, FALSE>>,
    <<"chat_photo_struct", "chat_photo", <<<<53771, 40764>>>>, FALSE>>,
    <<"chat_photo_layer115_struct", "chat_photo_layer115", <<<<18268, 56277>>>>, FALSE>>,
    <<"chat_photo_layer97_struct", "chat_photo_layer97", <<<<24915, 10090>>>>, FALSE>>,
    <<"chat_photo_empty_struct", "chat_photo_empty", <<<<14273, 284>>>>, FALSE>>,
    <<"chat_old_struct", "chat_old", <<<<28316, 39879>>>>, FALSE>>,
    <<"chat_old2_struct", "chat_old2", <<<<29458, 48200>>>>, FALSE>>,
    <<"contact_link_contact_struct", "contact_link_contact", <<<<54530, 49872>>>>, FALSE>>,
    <<"contact_link_has_phone_struct", "contact_link_has_phone", <<<<9871, 16217>>>>, FALSE>>,
    <<"contact_link_none_struct", "contact_link_none", <<<<65261, 54189>>>>, FALSE>>,
    <<"contact_link_unknown_struct", "contact_link_unknown", <<<<24399, 37447>>>>, FALSE>>,
    <<"contacts_link_layer101_struct", "contacts_link_layer101", <<<<15054, 18508>>>>, FALSE>>,
    <<"decrypted_message_action_abort_key_struct", "decrypted_message_action_abort_key", <<<<56581, 60523>>>>, FALSE>>,
    <<"decrypted_message_action_accept_key_struct", "decrypted_message_action_accept_key", <<<<28641, 29531>>>>, FALSE>>,
    <<"decrypted_message_action_commit_key_struct", "decrypted_message_action_commit_key", <<<<60462, 2971>>>>, FALSE>>,
    <<"decrypted_message_action_delete_messages_struct", "decrypted_message_action_delete_messages", <<<<25953, 17156>>>>, FALSE>>,
    <<"decrypted_message_action_flush_history_struct", "decrypted_message_action_flush_history", <<<<26393, 58460>>>>, FALSE>>,
    <<"decrypted_message_action_noop_struct", "decrypted_message_action_noop", <<<<43055, 56675>>>>, FALSE>>,
    <<"decrypted_message_action_notify_layer_struct", "decrypted_message_action_notify_layer", <<<<62212, 34947>>>>, FALSE>>,
    <<"decrypted_message_action_read_messages_struct", "decrypted_message_action_read_messages", <<<<3151, 16574>>>>, FALSE>>,
    <<"decrypted_message_action_request_key_struct", "decrypted_message_action_request_key", <<<<62409, 24859>>>>, FALSE>>,
    <<"decrypted_message_action_resend_struct", "decrypted_message_action_resend", <<<<20753, 4272>>>>, FALSE>>,
    <<"decrypted_message_action_screenshot_messages_struct", "decrypted_message_action_screenshot_messages", <<<<35521, 62581>>>>, FALSE>>,
    <<"decrypted_message_action_set_message_ttl_struct", "decrypted_message_action_set_message_ttl", <<<<41331, 15084>>>>, FALSE>>,
    <<"decrypted_message_action_typing_struct", "decrypted_message_action_typing", <<<<52402, 30273>>>>, FALSE>>,
    <<"document_struct", "document", <<<<7815, 13355>>>>, FALSE>>,
    <<"document_attribute_animated_struct", "document_attribute_animated", <<<<4533, 35129>>>>, FALSE>>,
    <<"document_attribute_audio_struct", "document_attribute_audio", <<<<38994, 63942>>>>, FALSE>>,
    <<"document_attribute_audio_layer45_struct", "document_attribute_audio_layer45", <<<<57042, 6368>>>>, FALSE>>,
    <<"document_attribute_audio_old_struct", "document_attribute_audio_old", <<<<1300, 18661>>>>, FALSE>>,
    <<"document_attribute_filename_struct", "document_attribute_filename", <<<<5465, 104>>>>, FALSE>>,
    <<"document_attribute_has_stickers_struct", "document_attribute_has_stickers", <<<<38913, 54007>>>>, FALSE>>,
    <<"document_attribute_image_size_struct", "document_attribute_image_size", <<<<27703, 49500>>>>, FALSE>>,
    <<"document_attribute_sticker_struct", "document_attribute_sticker", <<<<25369, 54802>>>>, FALSE>>,
    <<"document_attribute_sticker_layer55_struct", "document_attribute_sticker_layer55", <<<<14933, 25346>>>>, FALSE>>,
    <<"document_attribute_sticker_old_struct", "document_attribute_sticker_old", <<<<64266, 22311>>>>, FALSE>>,
    <<"document_attribute_sticker_old2_struct", "document_attribute_sticker_old2", <<<<39244, 39042>>>>, FALSE>>,
    <<"document_attribute_video_struct", "document_attribute_video", <<<<3824, 11494>>>>, FALSE>>,
    <<"document_attribute_video_layer65_struct", "document_attribute_video_layer65", <<<<22800, 52427>>>>, FALSE>>,
    <<"document_empty_struct", "document_empty", <<<<14072, 51313>>>>, FALSE>>,
    <<"document_encrypted_struct", "document_encrypted", <<<<21845, 21848>>>>, FALSE>>,
    <<"document_encrypted_old_struct", "document_encrypted_old", <<<<21845, 21846>>>>, FALSE>>,
    <<"document_layer113_struct", "document_layer113", <<<<39842, 40129>>>>, FALSE>>,
    <<"document_layer53_struct", "document_layer53", <<<<63907, 40783>>>>, FALSE>>,
    <<"document_layer82_struct", "document_layer82", <<<<34595, 11207>>>>, FALSE>>,
    <<"document_layer92_struct", "document_layer92", <<<<22867, 20044>>>>, FALSE>>,
    <<"document_old_struct", "document_old", <<<<40700, 25382>>>>, FALSE>>,
    <<"encrypted_chat_struct", "encrypted_chat", <<<<64086, 52790>>>>, FALSE>>,
    <<"encrypted_chat_discarded_struct", "encrypted_chat_discarded", <<<<5078, 56615>>>>, FALSE>>,
    <<"encrypted_chat_empty_struct", "encrypted_chat_empty", <<<<43902, 49312>>>>, FALSE>>,
    <<"encrypted_chat_requested_struct", "encrypted_chat_requested", <<<<25201, 35458>>>>, FALSE>>,
    <<"encrypted_chat_requested_layer115_struct", "encrypted_chat_requested_layer115", <<<<51320, 21118>>>>, FALSE>>,
    <<"encrypted_chat_requested_old_struct", "encrypted_chat_requested_old", <<<<64937, 42935>>>>, FALSE>>,
    <<"encrypted_chat_waiting_struct", "encrypted_chat_waiting", <<<<15351, 988>>>>, FALSE>>,
    <<"encrypted_chat_old_struct", "encrypted_chat_old", <<<<26113, 53583>>>>, FALSE>>,
    <<"file_encrypted_location_struct", "file_encrypted_location", <<<<21845, 21844>>>>, FALSE>>,
    <<"file_location_to_be_deprecated_struct", "file_location_to_be_deprecated", <<<<48255, 50893>>>>, FALSE>>,
    <<"file_location_layer82_struct", "file_location", <<<<21462, 36982>>>>, FALSE>>,
    <<"file_location_layer97_struct", "file_location_layer97", <<<<2333, 4587>>>>, FALSE>>,
    <<"file_location_unavailable_struct", "file_location_unavailable", <<<<31833, 27462>>>>, FALSE>>,
    <<"game_struct", "game", <<<<48633, 25915>>>>, FALSE>>,
    <<"geo_point_struct", "geo_point", <<<<662, 61700>>>>, FALSE>>,
    <<"geo_point_empty_struct", "geo_point_empty", <<<<4375, 56671>>>>, FALSE>>,
    <<"geo_point_layer81_struct", "geo_point_layer81", <<<<8265, 55052>>>>, FALSE>>,
    <<"input_channel_struct", "input_channel", <<<<45035, 28974>>>>, FALSE>>,
    <<"input_channel_empty_struct", "input_channel_empty", <<<<61068, 7814>>>>, FALSE>>,
    <<"input_group_call_struct", "input_group_call", <<<<55466, 33807>>>>, FALSE>>,
    <<"input_message_entity_mention_name_struct", "input_message_entity_mention_name", <<<<8334, 26825>>>>, FALSE>>,
    <<"input_sticker_set_animated_emoji_struct", "input_sticker_set_animated_emoji", <<>>, FALSE>>,
    <<"input_sticker_set_dice_struct", "input_sticker_set_dice", <<<<59007, 21006>>>>, FALSE>>,
    <<"input_sticker_set_empty_struct", "input_sticker_set_empty", <<<<65462, 11157>>>>, FALSE>>,
    <<"input_sticker_set_id_struct", "input_sticker_set_id", <<<<40423, 41577>>>>, FALSE>>,
    <<"input_sticker_set_short_name_struct", "input_sticker_set_short_name", <<<<34332, 51360>>>>, FALSE>>,
    <<"input_user_struct", "input_user", <<<<55337, 10262>>>>, FALSE>>,
    <<"input_user_empty_struct", "input_user_empty", <<<<47496, 34511>>>>, FALSE>>,
    <<"keyboard_button_struct", "keyboard_button", <<<<41722, 18560>>>>, FALSE>>,
    <<"keyboard_button_buy_struct", "keyboard_button_buy", <<<<45017, 16315>>>>, FALSE>>,
    <<"keyboard_button_callback_struct", "keyboard_button_callback", <<<<26682, 24134>>>>, FALSE>>,
    <<"keyboard_button_game_struct", "keyboard_button_game", <<<<20724, 7375>>>>, FALSE>>,
    <<"keyboard_button_request_geo_location_struct", "keyboard_button_request_geo_location", <<<<64633, 27455>>>>, FALSE>>,
    <<"keyboard_button_request_phone_struct", "keyboard_button_request_phone", <<<<45418, 27689>>>>, FALSE>>,
    <<"keyboard_button_request_poll_struct", "keyboard_button_request_poll", <<<<48071, 20829>>>>, FALSE>>,
    <<"keyboard_button_row_struct", "keyboard_button_row", <<<<30560, 35715>>>>, FALSE>>,
    <<"keyboard_button_switch_inline_struct", "keyboard_button_switch_inline", <<<<1384, 42824>>>>, FALSE>>,
    <<"keyboard_button_url_struct", "keyboard_button_url", <<<<9610, 65285>>>>, FALSE>>,
    <<"keyboard_button_url_auth_struct", "keyboard_button_url_auth", <<<<4279, 36137>>>>, FALSE>>,
    <<"mask_coords_struct", "mask_coords", <<<<44758, 56242>>>>, FALSE>>,
    <<"message_struct", "message_struct", <<<<17708, 3685>>>>, TRUE>>,
    <<"message_action_bot_allowed_struct", "message_action_bot_allowed", <<<<44009, 45054>>>>, FALSE>>,
    <<"message_action_channel_create_struct", "message_action_channel_create", <<<<38354, 44178>>>>, FALSE>>,
    <<"message_action_channel_migrate_from_struct", "message_action_channel_migrate_from", <<<<45141, 60142>>>>, FALSE>>,
    <<"message_action_chat_add_user_struct", "message_action_chat_add_user", <<<<18570, 29495>>>>, FALSE>>,
    <<"message_action_chat_add_user_old_struct", "message_action_chat_add_user_old", <<<<24124, 64587>>>>, FALSE>>,
    <<"message_action_chat_create_struct", "message_action_chat_create", <<<<42595, 35738>>>>, FALSE>>,
    <<"message_action_chat_delete_user_struct", "message_action_chat_delete_user", <<<<45742, 39692>>>>, FALSE>>,
    <<"message_action_chat_delete_photo_struct", "message_action_chat_delete_photo", <<<<38371, 64495>>>>, FALSE>>,
    <<"message_action_chat_edit_photo_struct", "message_action_chat_edit_photo", <<<<32715, 5032>>>>, FALSE>>,
    <<"message_action_chat_edit_title_struct", "message_action_chat_edit_title", <<<<46497, 52826>>>>, FALSE>>,
    <<"message_action_chat_joined_by_link_struct", "message_action_chat_joined_by_link", <<<<63644, 62952>>>>, FALSE>>,
    <<"message_action_chat_migrate_to_struct", "message_action_chat_migrate_to", <<<<20925, 45089>>>>, FALSE>>,
    <<"message_action_contact_sign_up_struct", "message_action_contact_sign_up", <<<<62450, 24438>>>>, FALSE>>,
    <<"message_action_created_broadcast_list_struct", "message_action_created_broadcast_list", <<<<21845, 21847>>>>, FALSE>>,
    <<"message_action_custom_action_struct", "message_action_custom_action", <<<<64230, 40790>>>>, FALSE>>,
    <<"message_action_empty_struct", "message_action_empty", <<<<46766, 63408>>>>, FALSE>>,
    <<"message_action_game_score_struct", "message_action_game_score", <<<<37543, 10358>>>>, FALSE>>,
    <<"message_action_group_call_struct", "message_action_group_call", <<<<31245, 32578>>>>, FALSE>>,
    <<"message_action_history_clear_struct", "message_action_history_clear", <<<<40890, 46596>>>>, FALSE>>,
    <<"message_action_login_unknown_location_struct", "message_action_login_unknown_location", <<<<21845, 22005>>>>, FALSE>>,
    <<"message_action_payment_sent_struct", "message_action_payment_sent_struct", <<<<16489, 40144>>>>, FALSE>>,
    <<"message_action_phone_call_struct", "message_action_phone_call", <<<<32993, 6783>>>>, FALSE>>,
    <<"message_action_pin_message_struct", "message_action_pin_message", <<<<38077, 14573>>>>, FALSE>>,
    <<"message_action_screenshot_taken_struct", "message_action_screenshot_taken", <<<<18322, 37531>>>>, FALSE>>,
    <<"message_action_secure_values_sent_struct", "message_action_secure_values_sent", <<<<55644, 24916>>>>, FALSE>>,
    <<"message_action_ttl_change_struct", "message_action_ttl_change", <<<<21845, 21842>>>>, FALSE>>,
    <<"message_action_user_joined_struct", "message_action_user_joined", <<<<21845, 21840>>>>, FALSE>>,
    <<"message_action_user_updated_photo_struct", "message_action_user_updated_photo", <<<<21845, 21841>>>>, FALSE>>,
    <<"message_empty_struct", "message_empty", <<<<33765, 56916>>>>, FALSE>>,
    <<"message_encrypted_action_struct", "message_encrypted_action", <<<<21845, 22007>>>>, FALSE>>,
    <<"message_entity_bank_card_struct", "message_entity_bank_card", <<<<30238, 27380>>>>, FALSE>>,
    <<"message_entity_blockquote_struct", "message_entity_blockquote", <<<<525, 62928>>>>, FALSE>>,
    <<"message_entity_bold_struct", "message_entity_bold", <<<<48481, 3017>>>>, FALSE>>,
    <<"message_entity_bot_command_struct", "message_entity_bot_command", <<<<27887, 35527>>>>, FALSE>>,
    <<"message_entity_cashtag_struct", "message_entity_cashtag", <<<<19534, 29759>>>>, FALSE>>,
    <<"message_entity_code_struct", "message_entity_code", <<<<10402, 1393>>>>, FALSE>>,
    <<"message_entity_email_struct", "message_entity_email", <<<<25828, 30146>>>>, FALSE>>,
    <<"message_entity_hashtag_struct", "message_entity_hashtag", <<<<28515, 23309>>>>, FALSE>>,
    <<"message_entity_italic_struct", "message_entity_italic", <<<<33391, 35680>>>>, FALSE>>,
    <<"message_entity_mention_struct", "message_entity_mention", <<<<64004, 22429>>>>, FALSE>>,
    <<"message_entity_mention_name_struct", "message_entity_mention_name", <<<<13613, 51800>>>>, FALSE>>,
    <<"message_entity_phone_struct", "message_entity_phone", <<<<39785, 58187>>>>, FALSE>>,
    <<"message_entity_pre_struct", "message_entity_pre", <<<<29586, 19424>>>>, FALSE>>,
    <<"message_entity_strike_struct", "message_entity_strike", <<<<48902, 37844>>>>, FALSE>>,
    <<"message_entity_text_url_struct", "message_entity_text_url", <<<<30374, 54055>>>>, FALSE>>,
    <<"message_entity_underline_struct", "message_entity_underline", <<<<40014, 32395>>>>, FALSE>>,
    <<"message_entity_unknown_struct", "message_entity_unknown", <<<<48018, 47765>>>>, FALSE>>,
    <<"message_entity_url_struct", "message_entity_url", <<<<28368, 9528>>>>, FALSE>>,
    <<"message_forwarded_old_struct", "message_forwarded_old", <<<<1524, 26628>>>>, FALSE>>,
    <<"message_forwarded_old2_struct", "message_forwarded_old2", <<<<41831, 59158>>>>, FALSE>>,
    <<"message_fwd_header_struct", "message_fwd_header", <<<<13626, 26731>>>>, FALSE>>,
    <<"message_fwd_header_layer112_struct", "message_fwd_header_layer112", <<<<60467, 33392>>>>, FALSE>>,
    <<"message_fwd_header_layer68_struct", "message_fwd_header_layer68", <<<<51078, 56779>>>>, FALSE>>,
    <<"message_fwd_header_layer72_struct", "message_fwd_header_layer72", <<<<64223, 62636>>>>, FALSE>>,
    <<"message_fwd_header_layer96_struct", "message_fwd_header_layer96", <<<<21918, 48749>>>>, FALSE>>,
    <<"message_media_audio_layer45_struct", "message_media_audio_layer45", <<<<50870, 33536>>>>, FALSE>>,
    <<"message_media_contact_struct", "message_media_contact", <<<<52210, 18752>>>>, FALSE>>,
    <<"message_media_contact_layer81_struct", "message_media_contact_layer81", <<<<24189, 12089>>>>, FALSE>>,
    <<"message_media_dice_struct", "message_media_dice", <<<<16254, 58763>>>>, FALSE>>,
    <<"message_media_dice_layer111_struct", "message_media_dice_layer111", <<<<25487, 58475>>>>, FALSE>>,
    <<"message_media_document_struct", "message_media_document", <<<<40112, 28887>>>>, FALSE>>,
    <<"message_media_document_layer68_struct", "message_media_document_layer68", <<<<62432, 11944>>>>, FALSE>>,
    <<"message_media_document_layer74_struct", "message_media_document_layer74", <<<<31812, 5331>>>>, FALSE>>,
    <<"message_media_document_old_struct", "message_media_document_old", <<<<12250, 8708>>>>, FALSE>>,
    <<"message_media_empty_struct", "message_media_empty", <<<<15853, 25376>>>>, FALSE>>,
    <<"message_media_game_struct", "message_media_game", <<<<64945, 36872>>>>, FALSE>>,
    <<"message_media_geo_struct", "message_media_geo", <<<<22240, 54388>>>>, FALSE>>,
    <<"message_media_geo_live_struct", "message_media_geo_live", <<<<31804, 9737>>>>, FALSE>>,
    <<"message_media_invoice_struct", "message_media_invoice", <<<<33877, 4935>>>>, FALSE>>,
    <<"message_media_photo_struct", "message_media_photo", <<<<26961, 20695>>>>, FALSE>>,
    <<"message_media_photo_layer68_struct", "message_media_photo_layer68", <<<<15756, 58685>>>>, FALSE>>,
    <<"message_media_photo_layer74_struct", "message_media_photo_layer74", <<<<46370, 15119>>>>, FALSE>>,
    <<"message_media_photo_old_struct", "message_media_photo_old", <<<<51396, 23082>>>>, FALSE>>,
    <<"message_media_poll_struct", "message_media_poll", <<<<19414, 59288>>>>, FALSE>>,
    <<"message_media_unsupported_struct", "message_media_unsupported", <<<<40836, 62622>>>>, FALSE>>,
    <<"message_media_unsupported_old_struct", "message_media_unsupported_old", <<<<10595, 10806>>>>, FALSE>>,
    <<"message_media_venue_struct", "message_media_venue", <<<<11968, 21311>>>>, FALSE>>,
    <<"message_media_venue_layer71_struct", "message_media_venue_layer71", <<<<30994, 46879>>>>, FALSE>>,
    <<"message_media_video_layer45_struct", "message_media_video_layer45", <<<<23503, 5749>>>>, FALSE>>,
    <<"message_media_video_old_struct", "message_media_video_old", <<<<41682, 17040>>>>, FALSE>>,
    <<"message_media_web_page_struct", "message_media_web_page", <<<<41773, 54784>>>>, FALSE>>,
    <<"message_reactions_struct", "message_reactions", <<<<47226, 9425>>>>, FALSE>>,
    <<"message_service_struct", "message_service", <<<<40473, 41462>>>>, FALSE>>,
    <<"message_service_layer48_struct", "message_service_layer48", <<<<49259, 38407>>>>, FALSE>>,
    <<"message_service_old_struct", "message_service_old", <<<<40845, 24763>>>>, FALSE>>,
    <<"message_layer104_struct", "message_layer104", <<<<17657, 46141>>>>, TRUE>>,
    <<"message_layer104_2_struct", "message_layer104_2", <<<<7323, 4135>>>>, TRUE>>,
    <<"message_layer104_3_struct", "message_layer104_3", <<<<38793, 56004>>>>, TRUE>>,
    <<"message_layer68_struct", "message_layer68", <<<<49307, 58463>>>>, FALSE>>,
    <<"message_layer72_struct", "message_layer72", <<<<37085, 56337>>>>, FALSE>>,
    <<"message_old3_struct", "message_old3", <<<<42923, 6545>>>>, FALSE>>,
    <<"message_old4_struct", "message_old4", <<<<49926, 805>>>>, FALSE>>,
    <<"message_old5_struct", "message_old5", <<<<61560, 5320>>>>, FALSE>>,
    <<"message_secret_struct", "message_secret", <<<<21845, 22010>>>>, TRUE>>,
    <<"page_struct", "page", <<<<39013, 32525>>>>, FALSE>>,
    <<"page_block_anchor_struct", "page_block_anchor", <<<<52749, 14256>>>>, FALSE>>,
    <<"page_block_audio_struct", "page_block_audio", <<<<32835, 25066>>>>, FALSE>>,
    <<"page_block_audio_layer82_struct", "page_block_audio_layer82", <<<<12728, 6783>>>>, FALSE>>,
    <<"page_block_author_date_struct", "page_block_author_date", <<<<47791, 58848>>>>, FALSE>>,
    <<"page_block_author_date_layer60_struct", "page_block_author_date_layer60", <<<<15707, 25842>>>>, FALSE>>,
    <<"page_block_blockquote_struct", "page_block_blockquote", <<<<9789, 31782>>>>, FALSE>>,
    <<"page_block_channel_struct", "page_block_channel", <<<<61207, 20917>>>>, FALSE>>,
    <<"page_block_collage_struct", "page_block_collage", <<<<26016, 64077>>>>, FALSE>>,
    <<"page_block_collage_layer82_struct", "page_block_collage_layer82", <<<<2227, 7247>>>>, FALSE>>,
    <<"page_block_cover_struct", "page_block_cover", <<<<14834, 13056>>>>, FALSE>>,
    <<"page_block_details_struct", "page_block_details", <<<<30326, 35821>>>>, FALSE>>,
    <<"page_block_divider_struct", "page_block_divider", <<<<56096, 45448>>>>, FALSE>>,
    <<"page_block_embed_struct", "page_block_embed", <<<<43121, 36293>>>>, FALSE>>,
    <<"page_block_embed_post_struct", "page_block_embed_post", <<<<62041, 43019>>>>, FALSE>>,
    <<"page_block_embed_post_layer82_struct", "page_block_embed_post_layer82", <<<<10540, 31721>>>>, FALSE>>,
    <<"page_block_embed_layer60_struct", "page_block_embed_layer60", <<<<55605, 55547>>>>, FALSE>>,
    <<"page_block_embed_layer82_struct", "page_block_embed_layer82", <<<<52706, 209>>>>, FALSE>>,
    <<"page_block_footer_struct", "page_block_footer", <<<<18567, 2457>>>>, FALSE>>,
    <<"page_block_header_struct", "page_block_header", <<<<49104, 25836>>>>, FALSE>>,
    <<"page_block_kicker_struct", "page_block_kicker", <<<<7700, 33680>>>>, FALSE>>,
    <<"page_block_list_struct", "page_block_list", <<<<58600, 32785>>>>, FALSE>>,
    <<"page_block_list_layer82_struct", "page_block_list_layer82", <<<<14936, 51188>>>>, FALSE>>,
    <<"page_block_map_struct", "page_block_map", <<<<42063, 16118>>>>, FALSE>>,
    <<"page_block_ordered_list_struct", "page_block_ordered_list", <<<<39562, 57825>>>>, FALSE>>,
    <<"page_block_paragraph_struct", "page_block_paragraph", <<<<18042, 1894>>>>, FALSE>>,
    <<"page_block_photo_struct", "page_block_photo", <<<<5977, 50528>>>>, FALSE>>,
    <<"page_block_photo_layer82_struct", "page_block_photo_layer82", <<<<59846, 39298>>>>, FALSE>>,
    <<"page_block_preformatted_struct", "page_block_preformatted", <<<<49264, 55614>>>>, FALSE>>,
    <<"page_block_pullquote_struct", "page_block_pullquote", <<<<20292, 22227>>>>, FALSE>>,
    <<"page_block_related_articles_struct", "page_block_related_articles", <<<<5649, 23190>>>>, FALSE>>,
    <<"page_block_slideshow_struct", "page_block_slideshow", <<<<799, 38288>>>>, FALSE>>,
    <<"page_block_slideshow_layer82_struct", "page_block_slideshow_layer82", <<<<4876, 35171>>>>, FALSE>>,
    <<"page_block_subheader_struct", "page_block_subheader", <<<<61739, 46817>>>>, FALSE>>,
    <<"page_block_subtitle_struct", "page_block_subtitle", <<<<36858, 39455>>>>, FALSE>>,
    <<"page_block_table_struct", "page_block_table", <<<<48973, 60034>>>>, FALSE>>,
    <<"page_block_title_struct", "page_block_title", <<<<28843, 50173>>>>, FALSE>>,
    <<"page_block_unsupported_struct", "page_block_unsupported", <<<<4950, 32394>>>>, FALSE>>,
    <<"page_block_video_struct", "page_block_video", <<<<31887, 59318>>>>, FALSE>>,
    <<"page_block_video_layer82_struct", "page_block_video_layer82", <<<<55767, 6246>>>>, FALSE>>,
    <<"page_caption_struct", "page_caption", <<<<28532, 30295>>>>, FALSE>>,
    <<"page_full_layer67_struct", "page_full_layer67", <<<<55201, 40297>>>>, FALSE>>,
    <<"page_full_layer82_struct", "page_full_layer82", <<<<21870, 51114>>>>, FALSE>>,
    <<"page_layer110_struct", "page_layer110", <<<<44681, 7148>>>>, FALSE>>,
    <<"page_list_item_blocks_struct", "page_list_item_blocks", <<<<9696, 29692>>>>, FALSE>>,
    <<"page_list_item_text_struct", "page_list_item_text", <<<<47407, 46797>>>>, FALSE>>,
    <<"page_list_ordered_item_blocks_struct", "page_list_ordered_item_blocks", <<<<39133, 35126>>>>, FALSE>>,
    <<"page_list_ordered_item_text_struct", "page_list_ordered_item_text", <<<<24070, 32839>>>>, FALSE>>,
    <<"page_part_layer67_struct", "page_part_layer67", <<<<36334, 27716>>>>, FALSE>>,
    <<"page_part_layer82_struct", "page_part_layer82", <<<<36415, 40638>>>>, FALSE>>,
    <<"page_related_article_struct", "page_related_article", <<<<45968, 56328>>>>, FALSE>>,
    <<"page_table_cell_struct", "page_table_cell", <<<<13398, 27498>>>>, FALSE>>,
    <<"page_table_row_struct", "page_table_row", <<<<57536, 50661>>>>, FALSE>>,
    <<"peer_channel_struct", "peer_channel", <<<<48605, 58674>>>>, FALSE>>,
    <<"peer_chat_struct", "peer_chat", <<<<47824, 58811>>>>, FALSE>>,
    <<"peer_notify_settings_struct", "peer_notify_settings", <<<<44880, 40224>>>>, FALSE>>,
    <<"peer_notify_settings_empty_layer77_struct", "peer_notify_settings_empty_layer77", <<<<28838, 34066>>>>, FALSE>>,
    <<"peer_notify_settings_layer47_struct", "peer_notify_settings_layer47", <<<<36190, 4590>>>>, FALSE>>,
    <<"peer_notify_settings_layer77_struct", "peer_notify_settings_layer77", <<<<39629, 42176>>>>, FALSE>>,
    <<"peer_settings_struct", "peer_settings", <<<<29503, 10593>>>>, FALSE>>,
    <<"peer_settings_v_5_15_0_struct", "peer_settings_v_5_15_0", <<<<33156, 9933>>>>, FALSE>>,
    <<"peer_user_struct", "peer_user", <<<<40369, 48237>>>>, FALSE>>,
    <<"phone_call_discard_reason_allow_group_call_struct", "phone_call_discard_reason_allow_group_call", <<<<45026, 47161>>>>, FALSE>>,
    <<"phone_call_discard_reason_busy_struct", "phone_call_discard_reason_busy", <<<<64247, 59593>>>>, FALSE>>,
    <<"phone_call_discard_reason_disconnect_struct", "phone_call_discard_reason_disconnect", <<<<57493, 49568>>>>, FALSE>>,
    <<"phone_call_discard_reason_hangup_struct", "phone_call_discard_reason_hangup", <<<<22445, 50832>>>>, FALSE>>,
    <<"phone_call_discard_reason_missed_struct", "phone_call_discard_reason_missed", <<<<34276, 8961>>>>, FALSE>>,
    <<"phone_call_discarded_struct", "phone_call_discarded", <<<<20682, 19937>>>>, FALSE>>,
    <<"photo_struct", "photo", <<<<64281, 31333>>>>, FALSE>>,
    <<"photo_cached_size_struct", "photo_cached_size", <<<<59815, 13562>>>>, FALSE>>,
    <<"photo_empty_struct", "photo_empty", <<<<9009, 45613>>>>, FALSE>>,
    <<"photo_layer115_struct", "photo_layer115", <<<<53365, 1189>>>>, FALSE>>,
    <<"photo_size_struct", "photo_size", <<<<30655, 46619>>>>, FALSE>>,
    <<"photo_size_empty_struct", "photo_size_empty", <<<<3607, 57916>>>>, FALSE>>,
    <<"photo_layer55_struct", "photo_layer55", <<<<52717, 17150>>>>, FALSE>>,
    <<"photo_layer82_struct", "photo_layer82", <<<<37512, 56617>>>>, FALSE>>,
    <<"photo_layer97_struct", "photo_layer97", <<<<40007, 32216>>>>, FALSE>>,
    <<"photo_old_struct", "photo_old", <<<<8885, 26449>>>>, FALSE>>,
    <<"photo_old2_struct", "photo_old2", <<<<50051, 32886>>>>, FALSE>>,
    <<"photo_stripped_size_struct", "photo_stripped_size", <<<<57520, 48174>>>>, FALSE>>,
    <<"poll_struct", "poll", <<<<34529, 33121>>>>, FALSE>>,
    <<"poll_answer_struct", "poll_answer", <<<<27817, 49897>>>>, FALSE>>,
    <<"poll_answer_voters_struct", "poll_answer_voters", <<<<15213, 56018>>>>, FALSE>>,
    <<"poll_layer111_struct", "poll_layer111", <<<<54610, 40198>>>>, FALSE>>,
    <<"poll_results_struct", "poll_results", <<<<47836, 49571>>>>, FALSE>>,
    <<"poll_results_layer108_struct", "poll_results_layer108", <<<<22357, 30810>>>>, FALSE>>,
    <<"poll_results_layer111_struct", "poll_results_layer111", <<<<51312, 9378>>>>, FALSE>>,
    <<"poll_to_delete_struct", "poll_to_delete", <<<<44916, 26502>>>>, FALSE>>,
    <<"reaction_count_struct", "reaction_count", <<<<28594, 20689>>>>, FALSE>>,
    <<"reply_inline_markup_struct", "reply_inline_markup", <<<<18595, 596>>>>, FALSE>>,
    <<"reply_keyboard_force_reply_struct", "reply_keyboard_force_reply", <<<<62480, 35488>>>>, FALSE>>,
    <<"reply_keyboard_hide_struct", "reply_keyboard_hide", <<<<41022, 23429>>>>, FALSE>>,
    <<"reply_keyboard_markup_struct", "reply_keyboard_markup", <<<<13570, 30092>>>>, FALSE>>,
    <<"restriction_reason_struct", "restriction_reason", <<<<53362, 44212>>>>, FALSE>>,
    <<"secure_value_type_address_struct", "secure_value_type_address", <<<<52195, 7718>>>>, FALSE>>,
    <<"secure_value_type_bank_statement_struct", "secure_value_type_bank_statement", <<<<35091, 31757>>>>, FALSE>>,
    <<"secure_value_type_driver_license_struct", "secure_value_type_driver_license", <<<<1764, 9668>>>>, FALSE>>,
    <<"secure_value_type_email_struct", "secure_value_type_email", <<<<36412, 42990>>>>, FALSE>>,
    <<"secure_value_type_identity_card_struct", "secure_value_type_identity_card", <<<<41168, 29771>>>>, FALSE>>,
    <<"secure_value_type_internal_passport_struct", "secure_value_type_internal_passport", <<<<39332, 36643>>>>, FALSE>>,
    <<"secure_value_type_passport_struct", "secure_value_type_passport", <<<<15788, 27136>>>>, FALSE>>,
    <<"secure_value_type_passport_registration_struct", "secure_value_type_passport_registration", <<<<39395, 32874>>>>, FALSE>>,
    <<"secure_value_type_personal_details_struct", "secure_value_type_personal_details", <<<<40234, 33251>>>>, FALSE>>,
    <<"secure_value_type_phone_struct", "secure_value_type_phone", <<<<45856, 43739>>>>, FALSE>>,
    <<"secure_value_type_rental_agreement_struct", "secure_value_type_rental_agreement", <<<<35720, 13448>>>>, FALSE>>,
    <<"secure_value_type_temporary_registration_struct", "secure_value_type_temporary_registration", <<<<59906, 60467>>>>, FALSE>>,
    <<"secure_value_type_utility_bill_struct", "secure_value_type_utility_bill", <<<<64566, 38222>>>>, FALSE>>,
    <<"send_message_cancel_action_struct", "send_message_cancel_action", <<<<64862, 51445>>>>, FALSE>>,
    <<"send_message_choose_contact_action_struct", "send_message_choose_contact_action", <<<<25228, 48239>>>>, FALSE>>,
    <<"send_message_game_play_action_struct", "send_message_game_play_action", <<<<56682, 36680>>>>, FALSE>>,
    <<"send_message_geo_location_action_struct", "send_message_geo_location_action", <<<<5999, 35745>>>>, FALSE>>,
    <<"send_message_record_audio_action_struct", "send_message_record_audio_action", <<<<54575, 29687>>>>, FALSE>>,
    <<"send_message_record_round_action_struct", "send_message_record_round_action", <<<<35058, 32700>>>>, FALSE>>,
    <<"send_message_record_video_action_struct", "send_message_record_video_action", <<<<41351, 54895>>>>, FALSE>>,
    <<"send_message_typing_action_struct", "send_message_typing_action", <<<<5823, 29774>>>>, FALSE>>,
    <<"send_message_upload_audio_action_struct", "send_message_upload_audio_action", <<<<62289, 55211>>>>, FALSE>>,
    <<"send_message_upload_audio_action_old_struct", "send_message_upload_audio_action_old", <<<<59052, 35439>>>>, FALSE>>,
    <<"send_message_upload_document_action_struct", "send_message_upload_document_action", <<<<43532, 55780>>>>, FALSE>>,
    <<"send_message_upload_document_action_old_struct", "send_message_upload_document_action_old", <<<<36782, 59790>>>>, FALSE>>,
    <<"send_message_upload_photo_action_struct", "send_message_upload_photo_action", <<<<53715, 18982>>>>, FALSE>>,
    <<"send_message_upload_photo_action_old_struct", "send_message_upload_photo_action_old", <<<<39178, 15386>>>>, FALSE>>,
    <<"send_message_upload_round_action_struct", "send_message_upload_round_action", <<<<9278, 7270>>>>, FALSE>>,
    <<"send_message_upload_video_action_struct", "send_message_upload_video_action", <<<<59766, 15084>>>>, FALSE>>,
    <<"send_message_upload_video_action_old_struct", "send_message_upload_video_action_old", <<<<37380, 12279>>>>, FALSE>>,
    <<"text_anchor_struct", "text_anchor", <<<<13653, 14178>>>>, FALSE>>,
    <<"text_bold_struct", "text_bold", <<<<26404, 43972>>>>, FALSE>>,
    <<"text_concat_struct", "text_concat", <<<<32354, 24791>>>>, FALSE>>,
    <<"text_email_struct", "text_email", <<<<56922, 3542>>>>, FALSE>>,
    <<"text_empty_struct", "text_empty", <<<<56381, 33359>>>>, FALSE>>,
    <<"text_fixed_struct", "text_fixed", <<<<27711, 6585>>>>, FALSE>>,
    <<"text_image_struct", "text_image", <<<<2076, 53071>>>>, FALSE>>,
    <<"text_italic_struct", "text_italic", <<<<55570, 42396>>>>, FALSE>>,
    <<"text_marked_struct", "text_marked", <<<<843, 34337>>>>, FALSE>>,
    <<"text_phone_struct", "text_phone", <<<<7371, 38506>>>>, FALSE>>,
    <<"text_plain_struct", "text_plain", <<<<29766, 38112>>>>, FALSE>>,
    <<"text_strike_struct", "text_strike", <<<<39928, 48021>>>>, FALSE>>,
    <<"text_subscript_struct", "text_subscript", <<<<60778, 34052>>>>, FALSE>>,
    <<"text_superscript_struct", "text_superscript", <<<<51195, 24065>>>>, FALSE>>,
    <<"text_underline_struct", "text_underline", <<<<49446, 8900>>>>, FALSE>>,
    <<"text_url_struct", "text_url", <<<<15400, 33985>>>>, FALSE>>,
    <<"theme_settings_struct", "theme_settings", <<<<39956, 38986>>>>, FALSE>>,
    <<"user_struct", "user_struct", <<<<37764, 22721>>>>, FALSE>>,
    <<"user_contact_old_struct", "user_contact_old", <<<<62203, 33561>>>>, FALSE>>,
    <<"user_contact_old2_struct", "user_contact_old2", <<<<51891, 24088>>>>, FALSE>>,
    <<"user_deleted_old_struct", "user_deleted_old", <<<<45722, 55244>>>>, FALSE>>,
    <<"user_deleted_old2_struct", "user_deleted_old2", <<<<54785, 28026>>>>, FALSE>>,
    <<"user_empty_struct", "user_empty", <<<<8194, 20666>>>>, FALSE>>,
    <<"user_foreign_old_struct", "user_foreign_old", <<<<21012, 51357>>>>, FALSE>>,
    <<"user_foreign_old2_struct", "user_foreign_old2", <<<<1884, 63400>>>>, FALSE>>,
    <<"user_full_struct", "user_full", <<<<60913, 31762>>>>, FALSE>>,
    <<"user_full_layer101_struct", "user_full_layer101", <<<<29781, 22988>>>>, FALSE>>,
    <<"user_full_layer98_struct", "user_full_layer98", <<<<36516, 43137>>>>, FALSE>>,
    <<"user_layer104_struct", "user_layer104", <<<<11795, 62659>>>>, FALSE>>,
    <<"user_layer65_struct", "user_layer65", <<<<53517, 38810>>>>, FALSE>>,
    <<"user_profile_photo_struct", "user_profile_photo", <<<<27091, 43814>>>>, FALSE>>,
    <<"user_profile_photo_empty_struct", "user_profile_photo_empty", <<<<20241, 47841>>>>, FALSE>>,
    <<"user_profile_photo_layer97_struct", "user_profile_photo_layer97", <<<<54617, 55496>>>>, FALSE>>,
    <<"user_profile_photo_layer115_struct", "user_profile_photo_layer115", <<<<60631, 23948>>>>, FALSE>>,
    <<"user_profile_photo_old_struct", "user_profile_photo_old", <<<<39181, 5267>>>>, FALSE>>,
    <<"user_request_old_struct", "user_request_old", <<<<8936, 52912>>>>, FALSE>>,
    <<"user_request_old2_struct", "user_request_old2", <<<<55756, 50415>>>>, FALSE>>,
    <<"user_self_old_struct", "user_self_old", <<<<29189, 13804>>>>, FALSE>>,
    <<"user_self_old2_struct", "user_self_old2", <<<<28679, 46161>>>>, FALSE>>,
    <<"user_self_old3_struct", "user_self_old3", <<<<7264, 58888>>>>, FALSE>>,
    <<"user_status_empty_struct", "user_status_empty", <<<<2512, 20553>>>>, FALSE>>,
    <<"user_status_last_month_struct", "user_status_last_month", <<<<30699, 51010>>>>, FALSE>>,
    <<"user_status_last_week_struct", "user_status_last_week", <<<<1983, 2556>>>>, FALSE>>,
    <<"user_status_offline_struct", "user_status_offline", <<<<140, 28735>>>>, FALSE>>,
    <<"user_status_online_struct", "user_status_online", <<<<60857, 14665>>>>, FALSE>>,
    <<"user_status_recently_struct", "user_status_recently", <<<<57967, 17137>>>>, FALSE>>,
    <<"user_old_struct", "user_old", <<<<8932, 36978>>>>, FALSE>>,
    <<"video_empty_layer45_struct", "video_empty_layer45", <<<<49414, 22696>>>>, FALSE>>,
    <<"video_encrypted_struct", "video_encrypted", <<<<21845, 21843>>>>, FALSE>>,
    <<"video_layer45_struct", "video_layer45", <<<<63272, 34771>>>>, FALSE>>,
    <<"video_old_struct", "video_old", <<<<23044, 42143>>>>, FALSE>>,
    <<"video_old2_struct", "video_old2", <<<<14479, 41873>>>>, FALSE>>,
    <<"video_old3_struct", "video_old3", <<<<61087, 19021>>>>, FALSE>>,
    <<"video_size_struct", "video_size", <<<<59441, 50518>>>>, FALSE>>,
    <<"video_size_layer115_struct", "video_size_layer115", <<<<17243, 47495>>>>, FALSE>>,
    <<"wall_paper_struct", "wall_paper", <<<<42039, 50157>>>>, FALSE>>,
    <<"wall_paper_layer94_struct", "wall_paper_layer94", <<<<61519, 37356>>>>, FALSE>>,
    <<"wall_paper_no_file_struct", "wall_paper_no_file", <<<<35572, 2853>>>>, FALSE>>,
    <<"wall_paper_settings_struct", "wall_paper_settings", <<<<1288, 27896>>>>, FALSE>>,
    <<"wall_paper_settings_layer106_struct", "wall_paper_settings_layer106", <<<<41263, 16568>>>>, FALSE>>,
    <<"web_document_struct", "web_document", <<<<7255, 3793>>>>, FALSE>>,
    <<"web_document_no_proxy_struct", "web_document_no_proxy", <<<<63944, 48326>>>>, FALSE>>,
    <<"web_document_layer81_struct", "web_document_layer81", <<<<50714, 52184>>>>, FALSE>>,
    <<"web_page_struct", "web_page", <<<<59548, 17842>>>>, FALSE>>,
    <<"web_page_attribute_theme_struct", "web_page_attribute_theme", <<<<21685, 26135>>>>, FALSE>>,
    <<"web_page_empty_struct", "web_page_empty", <<<<60180, 30696>>>>, FALSE>>,
    <<"web_page_layer104_struct", "web_page_layer104", <<<<24327, 46268>>>>, FALSE>>,
    <<"web_page_layer107_struct", "web_page_layer107", <<<<64100, 57714>>>>, FALSE>>,
    <<"web_page_layer58_struct", "web_page_layer58", <<<<51842, 3799>>>>, FALSE>>,
    <<"web_page_not_modified_struct", "web_page_not_modified", <<<<29457, 51729>>>>, FALSE>>,
    <<"web_page_not_modified_layer110_struct", "web_page_not_modified_layer110", <<<<34180, 38003>>>>, FALSE>>,
    <<"web_page_pending_struct", "web_page_pending", <<<<50566, 55836>>>>, FALSE>>,
    <<"web_page_url_pending_struct", "web_page_url_pending", <<<<54298, 20839>>>>, FALSE>>,
    <<"web_page_old_struct", "web_page_old", <<<<41758, 41141>>>>, FALSE>>
  }

(***************************************************************************)
(* Values                                                                  *)
(***************************************************************************)
None == <<>>

Some(v) == <<v>>

Max(a, b) == IF a >= b THEN a ELSE b

\* The dictionary the class attribute tdss_callbacks evaluates to.
tdss_callbacks ==
  [signature \in {i[1] : i \in tdss_callbacks_items} |->
     (CHOOSE i \in tdss_callbacks_items : i[1] = signature)[2]]

\* tblob.__init__: self._callbacks = {}, then one assignment per item.
tblob_init ==
  LET items == tdss_callbacks
  IN [signature \in DOMAIN items |-> items[signature]]

\* int.from_bytes(data[:4], 'little'), as <<hi, lo>>.
from_bytes_big(bytes) ==
  LET n == Len(bytes)
      b(i) == IF i >= 1 /\ i <= n THEN bytes[i] ELSE 0
  IN <<b(n - 3) * 256 + b(n - 2), b(n - 1) * 256 + b(n)>>

from_bytes_little(bytes) ==
  LET b(i) == IF i <= Len(bytes) THEN bytes[i] ELSE 0
  IN <<b(4) * 256 + b(3), b(2) * 256 + b(1)>>

\* data[:n]
Take(bytes, n) == SubSeq(bytes, 1, IF n < Len(bytes) THEN n ELSE Len(bytes))

\* data[n:]
Drop(bytes, n) == SubSeq(bytes, n + 1, Len(bytes))

HexDigit ==
  <<"0", "1", "2", "3", "4", "5", "6", "7",
    "8", "9", "a", "b", "c", "d", "e", "f">>

Nibbles(sig) ==
  <<sig[1] \div 4096, (sig[1] \div 256) % 16, (sig[1] \div 16) % 16, sig[1] % 16,
    sig[2] \div 4096, (sig[2] \div 256) % 16, (sig[2] \div 16) % 16, sig[2] % 16>>

RECURSIVE HexFrom(_, _)
HexFrom(nib, i) ==
  IF i > Len(nib) THEN "" ELSE HexDigit[nib[i] + 1] \o HexFrom(nib, i + 1)

\* The digits '%x' prints: no leading zero, at least one digit.
hex_digits(sig) ==
  LET nib == Nibbles(sig)
      first == IF \E i \in 1..8 : nib[i] # 0
               THEN CHOOSE i \in 1..8 : nib[i] # 0 /\ \A j \in 1..(i - 1) : nib[j] = 0
               ELSE 8
  IN HexFrom(nib, first)

\* hex(signature)
hex(sig) == "0x" \o hex_digits(sig)

(***************************************************************************)
(* construct.  A subcon is written as a tuple whose first component is the *)
(* name of its class, <<"Int32ul">> or <<"Const", value>>; a Struct is the *)
(* list of its fields.  Parsing a subcon at a stream offset within a       *)
(* Container (this) gives                                                  *)
(*   err  "None" or the name of the exception raised                       *)
(*   off  the stream offset afterwards                                     *)
(*   val  the value parsed                                                 *)
(*   log  the log calls made while parsing                                 *)
(***************************************************************************)
Ok(off, val) == [err |-> "None", off |-> off, val |-> val, log |-> <<>>]

OkLog(off, val, log) == [err |-> "None", off |-> off, val |-> val, log |-> log]

Fail(e, off) == [err |-> e, off |-> off, val |-> None, log |-> <<>>]

\* stream_read(stream, length)
stream_read(bytes, off, n) ==
  IF off + n > Len(bytes) THEN Fail("StreamError", off)
  ELSE Ok(off + n, SubSeq(bytes, off + 1, off + n))

Byte(bytes, off) ==
  LET r == stream_read(bytes, off, 1)
  IN IF r.err # "None" THEN r ELSE Ok(r.off, r.val[1])

Int32ul_short(bytes, off) ==
  LET r == stream_read(bytes, off, 2)
  IN IF r.err # "None" THEN r ELSE Ok(r.off, <<0, r.val[1] + 256 * r.val[2]>>)

Int32ul(bytes, off) ==
  LET r == stream_read(bytes, off, 4)
  IN IF r.err # "None" THEN r ELSE Ok(r.off, from_bytes_little(r.val))

\* Int64ul as <<high word, low word>>
Int64ul(bytes, off) ==
  LET r == stream_read(bytes, off, 8)
  IN IF r.err # "None" THEN r
     ELSE Ok(r.off, <<from_bytes_little(SubSeq(r.val, 5, 8)),
                      from_bytes_little(SubSeq(r.val, 1, 4))>>)

Bytes(bytes, off, n) == stream_read(bytes, off, n)

\* Padding(n): n bytes are read and dropped.
Padding(bytes, off, n) ==
  LET r == stream_read(bytes, off, n)
  IN IF r.err # "None" THEN r ELSE Ok(r.off, None)

\* Float64b (Double): 8 bytes, big-endian IEEE 754 binary64, as its sign
\* bit, its 11 exponent bits and the 52 fraction bits (4 bits, then 6
\* bytes).
Float64b(bytes, off) ==
  LET r == stream_read(bytes, off, 8)
  IN IF r.err # "None" THEN r
     ELSE Ok(r.off, [sign |-> r.val[1] \div 128,
                     exponent |-> (r.val[1] % 128) * 16 + r.val[2] \div 16,
                     fraction |-> <<r.val[2] % 16>> \o SubSeq(r.val, 3, 8)])

\* Terminated: one more byte in the stream is a TerminatedError.
Terminated(bytes, off) ==
  IF off < Len(bytes) THEN Fail("TerminatedError", off) ELSE Ok(off, None)

\* If(n, Padding(n))
If_Padding_skip(bytes, off, n) == Ok(off, None)

If_Padding(bytes, off, n) ==
  IF n # 0 THEN Padding(bytes, off, n) ELSE Ok(off, None)

GreedyBytes_none(bytes, off) == Ok(off, <<>>)

\* GreedyBytes: everything up to the end of the stream.
GreedyBytes(bytes, off) == Ok(Max(off, Len(bytes)), Drop(bytes, off))

\* Const._parse, r what the subcon gave: the value read is compared with the
\* expected one.
Const(r, value) ==
  IF r.err # "None" THEN r
  ELSE IF r.val # value THEN Fail("ConstError", r.off)
  ELSE r

\* Peek._parse, r what the subcon gave: Some(value), or None when the subcon
\* fails; the stream is not advanced.
Peek(off, r) == Ok(off, IF r.err # "None" THEN None ELSE Some(r.val))

\* If._parse when the condition holds, r what the subcon gave: the value is
\* present.
Present(r) == IF r.err # "None" THEN r ELSE [r EXCEPT !.val = Some(r.val)]

\* logger.error / logger.warning call
LogCall(level, msg, args) == [level |-> level, msg |-> msg, args |-> args]

\* Struct(fields...)
Struct(fields) == <<"Struct", fields>>

\* name / subcon
Field(name, subcon) == [name |-> name, subcon |-> subcon]

\* subcon, a field without a name
Anonymous(subcon) == [subcon |-> subcon]

\* The state of a Struct that is being parsed, before its first field: no
\* exception, the stream offset, an empty Container, no log call.
Context(off) == [err |-> "None", off |-> off, val |-> <<>>, log |-> <<>>]

\* Struct._parse after a field whose subcon gave r: the value is added to
\* the Container under the name of the field, if it has one.
Struct_add(st, field, r) ==
  IF r.err # "None"
  THEN [err |-> r.err, off |-> r.off, val |-> None, log |-> st.log \o r.log]
  ELSE [err |-> "None", off |-> r.off, log |-> st.log \o r.log,
        val |-> IF "name" \in DOMAIN field
                THEN (field.name :> r.val) @@ st.val
                ELSE st.val]

(***************************************************************************)
(* Primitive codecs                                                        *)
(***************************************************************************)
\* bytes.decode('utf-8') of the bytes from i on, strict: <<TRUE, code
\* points>> or <<FALSE, <<>>>> (UnicodeDecodeError).  A byte outside
\* 128..191 is the first of a character; the bytes decode when each of
\* these starts a well-formed sequence and every other byte lies in the
\* sequence of the first byte before it.
utf8_decode(b, i) ==
  LET first(j) == b[j] < 128 \/ b[j] > 191
      n(j) == IF b[j] < 128 THEN 1
              ELSE IF b[j] >= 194 /\ b[j] <= 223 THEN 2
              ELSE IF b[j] >= 224 /\ b[j] <= 239 THEN 3
              ELSE IF b[j] >= 240 /\ b[j] <= 244 THEN 4
              ELSE 0
      cont(j, lo, hi) == j <= Len(b) /\ b[j] >= lo /\ b[j] <= hi
      ok(j) == CASE n(j) = 1 -> TRUE
                 [] n(j) = 2 -> cont(j + 1, 128, 191)
                 [] n(j) = 3 -> /\ cont(j + 1, IF b[j] = 224 THEN 160 ELSE 128,
                                               IF b[j] = 237 THEN 159 ELSE 191)
                                /\ cont(j + 2, 128, 191)
                 [] n(j) = 4 -> /\ cont(j + 1, IF b[j] = 240 THEN 144 ELSE 128,
                                               IF b[j] = 244 THEN 143 ELSE 191)
                                /\ cont(j + 2, 128, 191)
                                /\ cont(j + 3, 128, 191)
                 [] OTHER -> FALSE
      cp(j) == CASE n(j) = 1 -> b[j]
                 [] n(j) = 2 -> (b[j] - 192) * 64 + (b[j + 1] - 128)
                 [] n(j) = 3 -> (b[j] - 224) * 4096 + (b[j + 1] - 128) * 64
                                + (b[j + 2] - 128)
                 [] n(j) = 4 -> (b[j] - 240) * 262144 + (b[j + 1] - 128) * 4096
                                + (b[j + 2] - 128) * 64 + (b[j + 3] - 128)
                 [] OTHER -> 0
      inside(j) == \E k \in i..(j - 1) :
                     /\ first(k)
                     /\ j < k + n(k)
                     /\ \A m \in (k + 1)..j : ~first(m)
      present(x) == x # <<>>
      chars == SelectSeq([j \in 1..(Len(b) - i + 1) |->
                            IF first(j + i - 1) THEN <<cp(j + i - 1)>>
                            ELSE <<>>],
                         present)
  IN IF \A j \in i..Len(b) : IF first(j) THEN ok(j) ELSE inside(j)
     THEN <<TRUE, [k \in 1..Len(chars) |-> chars[k][1]]>>
     ELSE <<FALSE, <<>>>>

\* decode_tstring(binarray), d the outcome of binarray.decode('utf-8'): the
\* str, or the bytes themselves and an error log call.
str_utf_silent(binarray, d) ==
  IF d[1]
  THEN [val |-> [type |-> "str", value |-> d[2]], log |-> <<>>]
  ELSE [val |-> [type |-> "bytes", value |-> binarray], log |-> <<>>]

str_utf(binarray, d) ==
  IF d[1]
  THEN [val |-> [type |-> "str", value |-> d[2]], log |-> <<>>]
  ELSE [val |-> [type |-> "bytes", value |-> binarray],
        log |-> <<LogCall("error", "unable to decode string: %s",
                          <<binarray>>)>>]

decode_tstring(binarray) == str_utf(binarray, utf8_decode(binarray, 1))

\* this._pl >> 8 of an Int32ul
shr8_low(v) == v[2] \div 256

shr8(v) == v[1] * 256 + v[2] \div 256

\* IfThenElse(this._check >= 254, Int32ul, Byte); None >= 254 raises
\* TypeError.
prefix_pl(bytes, off, this) ==
  IF this._check = None THEN Fail("TypeError", off)
  ELSE IF this._check[1] >= 254 THEN Int32ul(bytes, off)
  ELSE Byte(bytes, off)

\* IfThenElse(this._check >= 254, Computed(this._pl >> 8), Computed(this._pl))
prefix_len(off, this) ==
  Ok(off, IF this._check[1] >= 254 THEN shr8(this._pl) ELSE this._pl)

\* Computed(lambda x: decode_tstring(x._value)), s what decode_tstring gave
Computed_string(off, s) == OkLog(off, s.val, s.log)

\* The number of bytes the last, unnamed field of tstring_struct reads.
tstring_padding_same(check, len) ==
  IF len % 4 # 0 THEN 4 - (len % 4) ELSE 0

tstring_padding(check, len) ==
  IF check >= 254
  THEN (IF len % 4 # 0 THEN 4 - (len % 4) ELSE 0)
  ELSE (IF (len + 1) % 4 # 0 THEN 4 - ((len + 1) % 4) ELSE 0)

tstring_struct ==
  Struct(<<Field("_sname", <<"Computed", "tstring">>),
           Field("_check", <<"Peek", <<"Byte">>>>),
           Field("_pl", <<"prefix_pl">>),
           Field("_len", <<"prefix_len">>),
           Field("_value", <<"Bytes", "_len">>),
           Field("string", <<"decode_tstring", "_value">>),
           Anonymous(<<"tstring_padding", "_len">>)>>)

\* The number of bytes the last, unnamed field of tbytes_struct reads.
tbytes_padding_rem(check, len) ==
  IF check >= 254
  THEN (IF len % 4 # 0 THEN (len % 4) ELSE 0)
  ELSE (IF (len + 1) % 4 # 0 THEN 4 - ((len + 1) % 4) ELSE 0)

tbytes_padding(check, len) ==
  IF check >= 254
  THEN (IF len % 4 # 0 THEN 4 - (len % 4) ELSE 0)
  ELSE (IF (len + 1) % 4 # 0 THEN 4 - ((len + 1) % 4) ELSE 0)

tbytes_struct ==
  Struct(<<Field("_sname", <<"Computed", "tbytes">>),
           Field("_check", <<"Peek", <<"Byte">>>>),
           Field("_pl", <<"prefix_pl">>),
           Field("len", <<"prefix_len">>),
           Field("bytes", <<"Hex", <<"Bytes", "len">>>>),
           Anonymous(<<"tbytes_padding", "len">>)>>)

\* IfThenElse(this._signature == 0xbc799737, Computed('false'), ...)
tbool_value_strict(off, this) ==
  IF this._signature = <<48249, 38711>> THEN Ok(off, "false")
  ELSE IF this._signature = <<39282, 30133>> THEN Ok(off, "true")
  ELSE Fail("ConstError", off)

tbool_value(off, this) ==
  Ok(off, IF this._signature = <<48249, 38711>> THEN "false"
          ELSE IF this._signature = <<39282, 30133>> THEN "true"
          ELSE "ERROR")

tbool_struct ==
  Struct(<<Field("sname", <<"Computed", "boolean">>),
           Field("_signature", <<"Int32ul">>),
           Field("value", <<"tbool_value">>)>>)

\* Two decimal digits, zero padded ('%02d').
Dec2(n) == HexDigit[((n \div 10) % 10) + 1] \o HexDigit[(n % 10) + 1]

Dec4(n) == Dec2(n \div 100) \o Dec2(n % 100)

\* datetime.datetime.utcfromtimestamp(epoch).isoformat() of an int from
\* year 1 to year 9999, which is days whole days and secs seconds from the
\* first day of 1970 (before it, for a negative days).
isoformat(days, secs) ==
  LET text(y, m, d) ==
        Dec4(y) \o "-" \o Dec2(m) \o "-" \o Dec2(d) \o "T"
          \o Dec2(secs \div 3600) \o ":" \o Dec2((secs \div 60) % 60)
          \o ":" \o Dec2(secs % 60)
      month(era, yoe, doy, mp) ==
        text(yoe + era * 400 + (IF mp >= 10 THEN 1 ELSE 0),
             IF mp < 10 THEN mp + 3 ELSE mp - 9,
             doy - (153 * mp + 2) \div 5 + 1)
      day(era, yoe, doy) == month(era, yoe, doy, (5 * doy + 2) \div 153)
      year(era, doe, yoe) ==
        day(era, yoe, doe - (365 * yoe + yoe \div 4 - yoe \div 100))
      of(era, doe) ==
        year(era, doe,
             (doe - doe \div 1460 + doe \div 36524 - doe \div 146096)
               \div 365)
      from(z) == of(z \div 146097, z % 146097)
  IN from(days + 719468)

\* datetime.datetime.utcfromtimestamp(epoch).isoformat() of an epoch given
\* as <<hi, lo>>: the day number is epoch div 86400 and the time of day
\* epoch mod 86400 (86400 = 128 * 675).
utc_isoformat(epoch) ==
  LET date(q128) ==
        isoformat(q128 \div 675, (q128 % 675) * 128 + (epoch[2] % 128))
  IN date(epoch[1] * 512 + epoch[2] \div 128)

ttimestamp_struct ==
  Struct(<<Field("epoch", <<"Int32ul">>),
           Field("date", <<"utc_isoformat", "epoch">>)>>)

(***************************************************************************)
(* Record decoders                                                         *)
(***************************************************************************)
user_empty_struct ==
  Struct(<<Field("sname", <<"Computed", "user_empty">>),
           Field("signature", <<"Const", <<8194, 20666>>>>),
           Field("id", <<"Int32ul">>)>>)

user_status_offline_struct ==
  Struct(<<Field("sname", <<"Computed", "user_status_offline">>),
           Field("signature", <<"Const", <<140, 28735>>>>),
           Field("expires", <<"Int32ul">>)>>)

input_sticker_set_animated_emoji_struct ==
  Struct(<<Field("sname",
                 <<"Computed", "input_sticker_set_animated_emoji">>)>>)

peer_channel_struct ==
  Struct(<<Field("sname", <<"Computed", "peer_channel">>),
           Field("signature", <<"Const", <<48605, 58674>>>>),
           Field("channel_id", <<"Int32ul">>)>>)

peer_chat_struct ==
  Struct(<<Field("sname", <<"Computed", "peer_chat">>),
           Field("signature", <<"Const", <<47824, 58811>>>>),
           Field("chat_id", <<"Int32ul">>)>>)

peer_user_struct ==
  Struct(<<Field("sname", <<"Computed", "peer_user">>),
           Field("signature", <<"Const", <<40369, 48237>>>>),
           Field("user_id", <<"Int32ul">>)>>)

\* peer_structures(name): the tag_map and the Struct
peer_structures_tag_map ==
  (<<48605, 58674>> :> peer_channel_struct)
    @@ (<<47824, 58811>> :> peer_chat_struct)
    @@ (<<40369, 48237>> :> peer_user_struct)

peer_structures(name) ==
  Struct(<<Field("_signature", <<"Peek", <<"Int32ul">>>>),
           Field(name, <<"Switch", "_signature", peer_structures_tag_map>>)>>)

restriction_reason_struct ==
  Struct(<<Field("sname", <<"Computed", "restriction_reason">>),
           Field("signature", <<"Const", <<53362, 44212>>>>),
           Field("platform", tstring_struct),
           Field("reason", tstring_struct),
           Field("text", tstring_struct)>>)

bot_command_struct ==
  Struct(<<Field("sname", <<"Computed", "bot_command">>),
           Field("signature", <<"Const", <<49786, 51399>>>>),
           Field("command", tstring_struct),
           Field("description", tstring_struct)>>)

bot_info_struct ==
  Struct(<<Field("sname", <<"Computed", "bot_info">>),
           Field("signature", <<"Const", <<39144, 7482>>>>),
           Field("user_id", <<"Int32ul">>),
           Field("description", tstring_struct),
           Field("_vector_sig", <<"Const", <<7349, 50197>>>>),
           Field("bot_commands_num", <<"Int32ul">>),
           Field("bot_commands_array",
                 <<"Array", "bot_commands_num", bot_command_struct>>)>>)

user_profile_photo_empty_struct ==
  Struct(<<Field("sname", <<"Computed", "user_profile_photo_empty">>),
           Field("signature", <<"Const", <<20241, 47841>>>>)>>)

\* user_profile_photo_structures(name): the tag_map and the Struct
user_profile_photo_structures_tag_map ==
  (<<27091, 43814>> :> <<"LazyBound", "user_profile_photo_struct">>)
    @@ (<<60631, 23948>> :> <<"LazyBound", "user_profile_photo_layer115_struct">>)
    @@ (<<54617, 55496>> :> <<"LazyBound", "user_profile_photo_layer97_struct">>)
    @@ (<<20241, 47841>> :> user_profile_photo_empty_struct)
    @@ (<<39181, 5267>> :> <<"LazyBound", "user_profile_photo_old_struct">>)

user_profile_photo_structures(name) ==
  Struct(<<Field("_signature", <<"Peek", <<"Int32ul">>>>),
           Field(name, <<"Switch", "_signature",
                         user_profile_photo_structures_tag_map>>)>>)

user_status_recently_struct ==
  Struct(<<Field("sname", <<"Computed", "user_status_recently">>),
           Field("signature", <<"Const", <<57967, 17137>>>>)>>)

user_status_online_struct ==
  Struct(<<Field("sname", <<"Computed", "user_status_online">>),
           Field("signature", <<"Const", <<60857, 14665>>>>),
           Field("expires", <<"Int32ul">>)>>)

user_status_last_week_struct ==
  Struct(<<Field("sname", <<"Computed", "user_status_last_week">>),
           Field("signature", <<"Const", <<1983, 2556>>>>)>>)

user_status_last_month_struct ==
  Struct(<<Field("sname", <<"Computed", "user_status_last_month">>),
           Field("signature", <<"Const", <<30699, 51010>>>>)>>)

user_status_empty_struct ==
  Struct(<<Field("sname", <<"Computed", "user_status_empty">>),
           Field("signature", <<"Const", <<2512, 20553>>>>)>>)

\* user_status_structures(name): the tag_map and the Struct
user_status_structures_tag_map ==
  (<<57967, 17137>> :> user_status_recently_struct)
    @@ (<<60857, 14665>> :> user_status_online_struct)
    @@ (<<140, 28735>> :> user_status_offline_struct)
    @@ (<<1983, 2556>> :> user_status_last_week_struct)
    @@ (<<2512, 20553>> :> user_status_empty_struct)
    @@ (<<30699, 51010>> :> user_status_last_month_struct)

user_status_structures(name) ==
  Struct(<<Field("_signature", <<"Peek", <<"Int32ul">>>>),
           Field(name, <<"Switch", "_signature",
                         user_status_structures_tag_map>>)>>)

peer_notify_settings_layer47_struct ==
  Struct(<<Field("sname", <<"Computed", "peer_notify_settings_layer47">>),
           Field("signature", <<"Const", <<36190, 4590>>>>),
           Field("mute_until", <<"Int32ul">>),
           Field("sound", tstring_struct),
           Field("show_previews", tbool_struct),
           Field("event_mask", <<"Int32ul">>)>>)

\* Bit k of an Int32ul <<hi, lo>>.
Bit(v, k) ==
  IF k < 16 THEN (v[2] \div (2 ^ k)) % 2 = 1
  ELSE (v[1] \div (2 ^ (k - 16))) % 2 = 1

\* FlagsEnum(Int32ul, out=2, forwarded=4, ...) of message_struct
message_struct_flags(v) ==
  [out |-> Bit(v, 1), forwarded |-> Bit(v, 2),
   is_reply_to_msg_id |-> Bit(v, 3), mentioned |-> Bit(v, 4),
   media_unread |-> Bit(v, 5), has_reply_markup |-> Bit(v, 6),
   has_entities |-> Bit(v, 7), has_from_id |-> Bit(v, 8),
   has_media |-> Bit(v, 9), has_views |-> Bit(v, 10),
   is_via_bot |-> Bit(v, 11), silent |-> Bit(v, 13), post |-> Bit(v, 14),
   is_edited |-> Bit(v, 15), has_author |-> Bit(v, 16),
   is_grouped_id |-> Bit(v, 17), is_from_scheduled |-> Bit(v, 18),
   is_restricted |-> Bit(v, 22), is_legacy |-> Bit(v, 19),
   is_edit_hide |-> Bit(v, 21)]

\* FlagsEnum._parse, r what Int32ul gave
message_struct_flags_enum(r) ==
  IF r.err # "None" THEN r ELSE Ok(r.off, message_struct_flags(r.val))

message_struct ==
  Struct(<<Field("sname", <<"Computed", "message_struct">>),
           Field("signature", <<"Const", <<17708, 3685>>>>),
           Field("flags", <<"FlagsEnum", "message_struct">>),
           Field("id", <<"Int32ul">>),
           Field("from_id", <<"If", "has_from_id", <<"Int32ul">>>>),
           Field("to_id", peer_structures("to_id")),
           Field("fwd_from",
                 <<"If", "forwarded",
                   <<"structures", "message_fwd_header_structures",
                     "fwd_from">>>>),
           Field("via_bot_id", <<"If", "is_via_bot", <<"Int32ul">>>>),
           Field("reply_to_msg_id",
                 <<"If", "is_reply_to_msg_id", <<"Int32ul">>>>),
           Field("date", ttimestamp_struct),
           Field("message", tstring_struct),
           Field("media",
                 <<"If", "has_media",
                   <<"structures", "message_media_structures", "media">>>>),
           Field("_media_ttl", <<"Computed", "ignored">>),
           Field("_media_caption_legacy", <<"Computed", "ignored">>),
           Field("reply_markup",
                 <<"If", "has_reply_markup",
                   <<"structures", "reply_markup_structures",
                     "reply_markup">>>>),
           Field("entities",
                 <<"If", "has_entities",
                   Struct(<<Field("_vector_sig",
                                  <<"Const", <<7349, 50197>>>>),
                            Field("message_entity_num", <<"Int32ul">>),
                            Field("message_entity_array",
                                  <<"Array", "message_entity_num",
                                    <<"structures",
                                      "message_entity_structures",
                                      "message_entity">>>>)>>)>>),
           Field("views", <<"If", "has_views", <<"Int32ul">>>>),
           Field("edit_timestamp", <<"If", "is_edited", ttimestamp_struct>>),
           Field("post_author", <<"If", "has_author", tstring_struct>>),
           Field("grouped_id", <<"If", "is_grouped_id", <<"Int64ul">>>>),
           Field("restriction_reasons",
                 <<"If", "is_restricted",
                   Struct(<<Field("_vector_sig",
                                  <<"Const", <<7349, 50197>>>>),
                            Field("restriction_reasons_num", <<"Int32ul">>),
                            Field("restriction_reasons_array",
                                  <<"Array", "restriction_reasons_num",
                                    restriction_reason_struct>>)>>)>>),
           Field("UNPARSED", <<"GreedyBytes">>)>>)

\* FlagsEnum(Int32ul, has_access_hash=1, has_first_name=2, ...) of
\* user_struct
user_struct_flags_swapped(v) ==
  [has_access_hash |-> Bit(v, 0), has_first_name |-> Bit(v, 1),
   has_last_name |-> Bit(v, 2), has_username |-> Bit(v, 4),
   has_phone |-> Bit(v, 3), has_profile_photo |-> Bit(v, 5),
   has_status |-> Bit(v, 6), is_self |-> Bit(v, 10),
   is_contact |-> Bit(v, 11), is_mutual_contact |-> Bit(v, 12),
   is_deleted |-> Bit(v, 13), is_bot |-> Bit(v, 14),
   is_bot_chat_history |-> Bit(v, 15), is_bot_no_chats |-> Bit(v, 16),
   is_min |-> Bit(v, 20), is_verified |-> Bit(v, 17),
   is_bot_inline_geo |-> Bit(v, 21), is_restricted |-> Bit(v, 18),
   is_support |-> Bit(v, 23)]

user_struct_flags(v) ==
  [has_access_hash |-> Bit(v, 0), has_first_name |-> Bit(v, 1),
   has_last_name |-> Bit(v, 2), has_username |-> Bit(v, 3),
   has_phone |-> Bit(v, 4), has_profile_photo |-> Bit(v, 5),
   has_status |-> Bit(v, 6), is_self |-> Bit(v, 10),
   is_contact |-> Bit(v, 11), is_mutual_contact |-> Bit(v, 12),
   is_deleted |-> Bit(v, 13), is_bot |-> Bit(v, 14),
   is_bot_chat_history |-> Bit(v, 15), is_bot_no_chats |-> Bit(v, 16),
   is_min |-> Bit(v, 20), is_verified |-> Bit(v, 17),
   is_bot_inline_geo |-> Bit(v, 21), is_restricted |-> Bit(v, 18),
   is_support |-> Bit(v, 23)]

\* FlagsEnum._parse, r what Int32ul gave
user_struct_flags_enum(r) ==
  IF r.err # "None" THEN r ELSE Ok(r.off, user_struct_flags(r.val))

user_struct ==
  Struct(<<Field("sname", <<"Computed", "user_struct">>),
           Field("signature", <<"Const", <<37764, 22721>>>>),
           Field("flags", <<"FlagsEnum", "user_struct">>),
           Field("id", <<"Int32ul">>),
           Field("access_hash", <<"If", "has_access_hash", <<"Int64ul">>>>),
           Field("first_name", <<"If", "has_first_name", tstring_struct>>),
           Field("last_name", <<"If", "has_last_name", tstring_struct>>),
           Field("username", <<"If", "has_username", tstring_struct>>),
           Field("phone", <<"If", "has_phone", tstring_struct>>),
           Field("photo", <<"If", "has_profile_photo",
                           user_profile_photo_structures("photo")>>),
           Field("status", <<"If", "has_status",
                            user_status_structures("status")>>),
           Field("bot_info_version", <<"If", "is_bot", <<"Int32ul">>>>),
           Field("restrictions",
                 <<"If", "is_restricted",
                   Struct(<<Field("_vector_sig",
                                  <<"Const", <<7349, 50197>>>>),
                            Field("restrictions_num", <<"Int32ul">>),
                            Field("restrictions_array",
                                  <<"Array", "restrictions_num",
                                    restriction_reason_struct>>)>>)>>)>>)

\* FlagsEnum(Int32ul, name=value, ...)._parse, r what Int32ul gave and
\* flags the bit each declared name stands for: a Container with the
\* declared names.
FlagsEnum(r, flags) ==
  IF r.err # "None" THEN r
  ELSE Ok(r.off, [name \in DOMAIN flags |-> Bit(r.val, flags[name])])

\* FlagsEnum(Int32ul, name=value, ...)._parse with values of several bits
\* (or none), masks the bits of each declared name: obj & value == value.
FlagsEnum_masks(r, masks) ==
  IF r.err # "None" THEN r
  ELSE Ok(r.off, [name \in DOMAIN masks |->
                    \A k \in masks[name] : Bit(r.val, k)])

encrypted_chat_requested_struct ==
  Struct(<<Field("sname", <<"Computed", "encrypted_chat_requested">>),
           Field("signature", <<"Const", <<25201, 35458>>>>),
           Field("flags", <<"FlagsEnum_Int32ul", [has_folder_is |-> 0]>>),
           Field("folder_id", <<"If", "has_folder_id", <<"Int32ul">>>>),
           Field("id", <<"Int32ul">>),
           Field("access_hash", <<"Int64ul">>),
           Field("date", ttimestamp_struct),
           Field("admin_id", <<"Int32ul">>),
           Field("participant_id", <<"Int32ul">>),
           Field("g_a", tbytes_struct)>>)

(***************************************************************************)
(* The decoders of class tblob                                             *)
(***************************************************************************)
\* The tag_map of each <name>_structures method: the decoder of each
\* signature.
tblob_tag_map ==
  [audio_structures |->
       (<<51116, 25750>> :> <<"LazyBound", "audio_old2_struct">>)
       @@ (<<63971, 20565>> :> <<"LazyBound", "audio_layer45_struct">>)
       @@ (<<17012, 9703>> :> <<"LazyBound", "audio_old_struct">>)
       @@ (<<21845, 22006>> :> <<"LazyBound", "audio_encrypted_struct">>)
       @@ (<<22633, 35032>> :> <<"LazyBound", "audio_empty_layer45_struct">>),
   base_theme_structures |->
       (<<47027, 7848>> :> <<"LazyBound", "base_theme_night_struct">>)
       @@ (<<50081, 9314>> :> <<"LazyBound", "base_theme_classic_struct">>)
       @@ (<<64472, 5768>> :> <<"LazyBound", "base_theme_day_struct">>)
       @@ (<<23313, 4698>> :> <<"LazyBound", "base_theme_arctic_struct">>)
       @@ (<<27999, 30702>> :> <<"LazyBound", "base_theme_tinted_struct">>),
   bot_info_structures |->
       (<<39144, 7482>> :> <<"LazyBound", "bot_info_struct">>)
       @@ (<<47918, 14286>> :> <<"LazyBound", "bot_info_empty_layer48_struct">>)
       @@ (<<2511, 22621>> :> <<"LazyBound", "bot_info_layer48_struct">>),
   chat_structures |->
       (<<54042, 38430>> :> <<"LazyBound", "channel_struct">>)
       @@ (<<34103, 30799>> :> <<"LazyBound", "channel_forbidden_layer67_struct">>)
       @@ (<<39842, 55296>> :> <<"LazyBound", "chat_empty_struct">>)
       @@ (<<41293, 51794>> :> <<"LazyBound", "channel_layer67_struct">>)
       @@ (<<51337, 29868>> :> <<"LazyBound", "channel_layer92_struct">>)
       @@ (<<55580, 56660>> :> <<"LazyBound", "chat_layer92_struct">>)
       @@ (<<64268, 52289>> :> <<"LazyBound", "chat_forbidden_old_struct">>)
       @@ (<<1842, 35803>> :> <<"LazyBound", "chat_forbidden_struct">>)
       @@ (<<3252, 19228>> :> <<"LazyBound", "channel_layer72_struct">>)
       @@ (<<10397, 42802>> :> <<"LazyBound", "channel_forbidden_struct">>)
       @@ (<<11653, 33580>> :> <<"LazyBound", "channel_forbidden_layer52_struct">>)
       @@ (<<15322, 7134>> :> <<"LazyBound", "chat_struct">>)
       @@ (<<17675, 28949>> :> <<"LazyBound", "channel_layer77_struct">>)
       @@ (<<19227, 29958>> :> <<"LazyBound", "channel_layer48_struct">>)
       @@ (<<19955, 2100>> :> <<"LazyBound", "channel_layer104_struct">>)
       @@ (<<26510, 38279>> :> <<"LazyBound", "channel_old_struct">>)
       @@ (<<28316, 39879>> :> <<"LazyBound", "chat_old_struct">>)
       @@ (<<29458, 48200>> :> <<"LazyBound", "chat_old2_struct">>),
   chat_photo_structures |->
       (<<14273, 284>> :> <<"LazyBound", "chat_photo_empty_struct">>)
       @@ (<<24915, 10090>> :> <<"LazyBound", "chat_photo_layer97_struct">>)
       @@ (<<18268, 56277>> :> <<"LazyBound", "chat_photo_layer115_struct">>)
       @@ (<<53771, 40764>> :> <<"LazyBound", "chat_photo_struct">>),
   contact_link_structures |->
       (<<54530, 49872>> :> <<"LazyBound", "contact_link_contact_struct">>)
       @@ (<<65261, 54189>> :> <<"LazyBound", "contact_link_none_struct">>)
       @@ (<<9871, 16217>> :> <<"LazyBound", "contact_link_has_phone_struct">>)
       @@ (<<24399, 37447>> :> <<"LazyBound", "contact_link_unknown_struct">>),
   decrypted_message_action_structures |->
       (<<35521, 62581>> :> <<"LazyBound", "decrypted_message_action_screenshot_messages_struct">>)
       @@ (<<43055, 56675>> :> <<"LazyBound", "decrypted_message_action_noop_struct">>)
       @@ (<<52402, 30273>> :> <<"LazyBound", "decrypted_message_action_typing_struct">>)
       @@ (<<56581, 60523>> :> <<"LazyBound", "decrypted_message_action_abort_key_struct">>)
       @@ (<<60462, 2971>> :> <<"LazyBound", "decrypted_message_action_commit_key_struct">>)
       @@ (<<62212, 34947>> :> <<"LazyBound", "decrypted_message_action_notify_layer_struct">>)
       @@ (<<62409, 24859>> :> <<"LazyBound", "decrypted_message_action_request_key_struct">>)
       @@ (<<3151, 16574>> :> <<"LazyBound", "decrypted_message_action_read_messages_struct">>)
       @@ (<<20753, 4272>> :> <<"LazyBound", "decrypted_message_action_resend_struct">>)
       @@ (<<25953, 17156>> :> <<"LazyBound", "decrypted_message_action_delete_messages_struct">>)
       @@ (<<26393, 58460>> :> <<"LazyBound", "decrypted_message_action_flush_history_struct">>)
       @@ (<<28641, 29531>> :> <<"LazyBound", "decrypted_message_action_accept_key_struct">>)
       @@ (<<41331, 15084>> :> <<"LazyBound", "decrypted_message_action_set_message_ttl_struct">>),
   document_attribute_structures |->
       (<<38913, 54007>> :> <<"LazyBound", "document_attribute_has_stickers_struct">>)
       @@ (<<38994, 63942>> :> <<"LazyBound", "document_attribute_audio_struct">>)
       @@ (<<39244, 39042>> :> <<"LazyBound", "document_attribute_sticker_old2_struct">>)
       @@ (<<57042, 6368>> :> <<"LazyBound", "document_attribute_audio_layer45_struct">>)
       @@ (<<64266, 22311>> :> <<"LazyBound", "document_attribute_sticker_old_struct">>)
       @@ (<<1300, 18661>> :> <<"LazyBound", "document_attribute_audio_old_struct">>)
       @@ (<<3824, 11494>> :> <<"LazyBound", "document_attribute_video_struct">>)
       @@ (<<4533, 35129>> :> <<"LazyBound", "document_attribute_animated_struct">>)
       @@ (<<5465, 104>> :> <<"LazyBound", "document_attribute_filename_struct">>)
       @@ (<<14933, 25346>> :> <<"LazyBound", "document_attribute_sticker_layer55_struct">>)
       @@ (<<22800, 52427>> :> <<"LazyBound", "document_attribute_video_layer65_struct">>)
       @@ (<<25369, 54802>> :> <<"LazyBound", "document_attribute_sticker_struct">>)
       @@ (<<27703, 49500>> :> <<"LazyBound", "document_attribute_image_size_struct">>),
   document_structures |->
       (<<7815, 13355>> :> <<"LazyBound", "document_struct">>)
       @@ (<<34595, 11207>> :> <<"LazyBound", "document_layer82_struct">>)
       @@ (<<39842, 40129>> :> <<"LazyBound", "document_layer113_struct">>)
       @@ (<<40700, 25382>> :> <<"LazyBound", "document_old_struct">>)
       @@ (<<63907, 40783>> :> <<"LazyBound", "document_layer53_struct">>)
       @@ (<<14072, 51313>> :> <<"LazyBound", "document_empty_struct">>)
       @@ (<<21845, 21846>> :> <<"LazyBound", "document_encrypted_old_struct">>)
       @@ (<<21845, 21848>> :> <<"LazyBound", "document_encrypted_struct">>)
       @@ (<<22867, 20044>> :> <<"LazyBound", "document_layer92_struct">>),
   encrypted_chat_structures |->
       (<<25201, 35458>> :> <<"LazyBound", "encrypted_chat_requested_struct">>)
       @@ (<<43902, 49312>> :> <<"LazyBound", "encrypted_chat_empty_struct">>)
       @@ (<<51320, 21118>> :> <<"LazyBound", "encrypted_chat_requested_layer115_struct">>)
       @@ (<<64086, 52790>> :> <<"LazyBound", "encrypted_chat_struct">>)
       @@ (<<64937, 42935>> :> <<"LazyBound", "encrypted_chat_requested_old_struct">>)
       @@ (<<5078, 56615>> :> <<"LazyBound", "encrypted_chat_discarded_struct">>)
       @@ (<<15351, 988>> :> <<"LazyBound", "encrypted_chat_waiting_struct">>)
       @@ (<<26113, 53583>> :> <<"LazyBound", "encrypted_chat_old_struct">>),
   file_location_structures |->
       (<<48255, 50893>> :> <<"LazyBound", "file_location_to_be_deprecated_struct">>)
       @@ (<<2333, 4587>> :> <<"LazyBound", "file_location_layer97_struct">>)
       @@ (<<21462, 36982>> :> <<"LazyBound", "file_location_layer82_struct">>)
       @@ (<<21845, 21844>> :> <<"LazyBound", "file_encrypted_location_struct">>)
       @@ (<<31833, 27462>> :> <<"LazyBound", "file_location_unavailable_struct">>),
   geo_point_structures |->
       (<<662, 61700>> :> <<"LazyBound", "geo_point_struct">>)
       @@ (<<4375, 56671>> :> <<"LazyBound", "geo_point_empty_struct">>)
       @@ (<<8265, 55052>> :> <<"LazyBound", "geo_point_layer81_struct">>),
   input_channel_structures |->
       (<<45035, 28974>> :> <<"LazyBound", "input_channel_struct">>)
       @@ (<<61068, 7814>> :> <<"LazyBound", "input_channel_empty_struct">>),
   input_sticker_set_structures |->
       (<<647, 968>> :> <<"LazyBound", "input_sticker_set_animated_emoji_struct">>)
       @@ (<<59007, 21006>> :> <<"LazyBound", "input_sticker_set_dice_struct">>)
       @@ (<<65462, 11157>> :> <<"LazyBound", "input_sticker_set_empty_struct">>)
       @@ (<<40423, 41577>> :> <<"LazyBound", "input_sticker_set_id_struct">>)
       @@ (<<34332, 51360>> :> <<"LazyBound", "input_sticker_set_short_name_struct">>),
   keyboard_button_structures |->
       (<<4279, 36137>> :> <<"LazyBound", "keyboard_button_url_auth_struct">>)
       @@ (<<48071, 20829>> :> <<"LazyBound", "keyboard_button_request_poll_struct">>)
       @@ (<<41722, 18560>> :> <<"LazyBound", "keyboard_button_struct">>)
       @@ (<<45017, 16315>> :> <<"LazyBound", "keyboard_button_buy_struct">>)
       @@ (<<45418, 27689>> :> <<"LazyBound", "keyboard_button_request_phone_struct">>)
       @@ (<<64633, 27455>> :> <<"LazyBound", "keyboard_button_request_geo_location_struct">>)
       @@ (<<1384, 42824>> :> <<"LazyBound", "keyboard_button_switch_inline_struct">>)
       @@ (<<9610, 65285>> :> <<"LazyBound", "keyboard_button_url_struct">>)
       @@ (<<20724, 7375>> :> <<"LazyBound", "keyboard_button_game_struct">>)
       @@ (<<26682, 24134>> :> <<"LazyBound", "keyboard_button_callback_struct">>),
   message_action_structures |->
       (<<32993, 6783>> :> <<"LazyBound", "message_action_phone_call_struct">>)
       @@ (<<37543, 10358>> :> <<"LazyBound", "message_action_game_score_struct">>)
       @@ (<<38077, 14573>> :> <<"LazyBound", "message_action_pin_message_struct">>)
       @@ (<<38354, 44178>> :> <<"LazyBound", "message_action_channel_create_struct">>)
       @@ (<<38371, 64495>> :> <<"LazyBound", "message_action_chat_delete_photo_struct">>)
       @@ (<<40890, 46596>> :> <<"LazyBound", "message_action_history_clear_struct">>)
       @@ (<<42595, 35738>> :> <<"LazyBound", "message_action_chat_create_struct">>)
       @@ (<<44009, 45054>> :> <<"LazyBound", "message_action_bot_allowed_struct">>)
       @@ (<<45141, 60142>> :> <<"LazyBound", "message_action_channel_migrate_from_struct">>)
       @@ (<<45742, 39692>> :> <<"LazyBound", "message_action_chat_delete_user_struct">>)
       @@ (<<46497, 52826>> :> <<"LazyBound", "message_action_chat_edit_title_struct">>)
       @@ (<<46766, 63408>> :> <<"LazyBound", "message_action_empty_struct">>)
       @@ (<<55644, 24916>> :> <<"LazyBound", "message_action_secure_values_sent_struct">>)
       @@ (<<62450, 24438>> :> <<"LazyBound", "message_action_contact_sign_up_struct">>)
       @@ (<<63644, 62952>> :> <<"LazyBound", "message_action_chat_joined_by_link_struct">>)
       @@ (<<64230, 40790>> :> <<"LazyBound", "message_action_custom_action_struct">>)
       @@ (<<16489, 40144>> :> <<"LazyBound", "message_action_payment_sent_struct">>)
       @@ (<<18322, 37531>> :> <<"LazyBound", "message_action_screenshot_taken_struct">>)
       @@ (<<18570, 29495>> :> <<"LazyBound", "message_action_chat_add_user_struct">>)
       @@ (<<20925, 45089>> :> <<"LazyBound", "message_action_chat_migrate_to_struct">>)
       @@ (<<21845, 21840>> :> <<"LazyBound", "message_action_user_joined_struct">>)
       @@ (<<21845, 21841>> :> <<"LazyBound", "message_action_user_updated_photo_struct">>)
       @@ (<<21845, 21842>> :> <<"LazyBound", "message_action_ttl_change_struct">>)
       @@ (<<21845, 21847>> :> <<"LazyBound", "message_action_created_broadcast_list_struct">>)
       @@ (<<21845, 22005>> :> <<"LazyBound", "message_action_login_unknown_location_struct">>)
       @@ (<<21845, 22007>> :> <<"LazyBound", "message_encrypted_action_struct">>)
       @@ (<<24124, 64587>> :> <<"LazyBound", "message_action_chat_add_user_old_struct">>)
       @@ (<<31245, 32578>> :> <<"LazyBound", "message_action_group_call_struct">>)
       @@ (<<32715, 5032>> :> <<"LazyBound", "message_action_chat_edit_photo_struct">>),
   message_entity_structures |->
       (<<40014, 32395>> :> <<"LazyBound", "message_entity_underline_struct">>)
       @@ (<<48902, 37844>> :> <<"LazyBound", "message_entity_strike_struct">>)
       @@ (<<30238, 27380>> :> <<"LazyBound", "message_entity_bank_card_struct">>)
       @@ (<<525, 62928>> :> <<"LazyBound", "message_entity_blockquote_struct">>)
       @@ (<<33391, 35680>> :> <<"LazyBound", "message_entity_italic_struct">>)
       @@ (<<39785, 58187>> :> <<"LazyBound", "message_entity_phone_struct">>)
       @@ (<<48018, 47765>> :> <<"LazyBound", "message_entity_unknown_struct">>)
       @@ (<<48481, 3017>> :> <<"LazyBound", "message_entity_bold_struct">>)
       @@ (<<64004, 22429>> :> <<"LazyBound", "message_entity_mention_struct">>)
       @@ (<<8334, 26825>> :> <<"LazyBound", "input_message_entity_mention_name_struct">>)
       @@ (<<10402, 1393>> :> <<"LazyBound", "message_entity_code_struct">>)
       @@ (<<13613, 51800>> :> <<"LazyBound", "message_entity_mention_name_struct">>)
       @@ (<<19534, 29759>> :> <<"LazyBound", "message_entity_cashtag_struct">>)
       @@ (<<25828, 30146>> :> <<"LazyBound", "message_entity_email_struct">>)
       @@ (<<27887, 35527>> :> <<"LazyBound", "message_entity_bot_command_struct">>)
       @@ (<<28368, 9528>> :> <<"LazyBound", "message_entity_url_struct">>)
       @@ (<<28515, 23309>> :> <<"LazyBound", "message_entity_hashtag_struct">>)
       @@ (<<29586, 19424>> :> <<"LazyBound", "message_entity_pre_struct">>)
       @@ (<<30374, 54055>> :> <<"LazyBound", "message_entity_text_url_struct">>),
   message_fwd_header_structures |->
       (<<13626, 26731>> :> <<"LazyBound", "message_fwd_header_struct">>)
       @@ (<<51078, 56779>> :> <<"LazyBound", "message_fwd_header_layer68_struct">>)
       @@ (<<60467, 33392>> :> <<"LazyBound", "message_fwd_header_layer112_struct">>)
       @@ (<<64223, 62636>> :> <<"LazyBound", "message_fwd_header_layer72_struct">>)
       @@ (<<21918, 48749>> :> <<"LazyBound", "message_fwd_header_layer96_struct">>),
   message_media_structures |->
       (<<16254, 58763>> :> <<"LazyBound", "message_media_dice_struct">>)
       @@ (<<25487, 58475>> :> <<"LazyBound", "message_media_dice_layer111_struct">>)
       @@ (<<15853, 25376>> :> <<"LazyBound", "message_media_empty_struct">>)
       @@ (<<41773, 54784>> :> <<"LazyBound", "message_media_web_page_struct">>)
       @@ (<<33877, 4935>> :> <<"LazyBound", "message_media_invoice_struct">>)
       @@ (<<40112, 28887>> :> <<"LazyBound", "message_media_document_struct">>)
       @@ (<<40836, 62622>> :> <<"LazyBound", "message_media_unsupported_struct">>)
       @@ (<<41682, 17040>> :> <<"LazyBound", "message_media_video_old_struct">>)
       @@ (<<46370, 15119>> :> <<"LazyBound", "message_media_photo_layer74_struct">>)
       @@ (<<50870, 33536>> :> <<"LazyBound", "message_media_audio_layer45_struct">>)
       @@ (<<51396, 23082>> :> <<"LazyBound", "message_media_photo_old_struct">>)
       @@ (<<52210, 18752>> :> <<"LazyBound", "message_media_contact_struct">>)
       @@ (<<62432, 11944>> :> <<"LazyBound", "message_media_document_layer68_struct">>)
       @@ (<<64945, 36872>> :> <<"LazyBound", "message_media_game_struct">>)
       @@ (<<10595, 10806>> :> <<"LazyBound", "message_media_unsupported_old_struct">>)
       @@ (<<11968, 21311>> :> <<"LazyBound", "message_media_venue_struct">>)
       @@ (<<12250, 8708>> :> <<"LazyBound", "message_media_document_old_struct">>)
       @@ (<<15756, 58685>> :> <<"LazyBound", "message_media_photo_layer68_struct">>)
       @@ (<<19414, 59288>> :> <<"LazyBound", "message_media_poll_struct">>)
       @@ (<<22240, 54388>> :> <<"LazyBound", "message_media_geo_struct">>)
       @@ (<<23503, 5749>> :> <<"LazyBound", "message_media_video_layer45_struct">>)
       @@ (<<24189, 12089>> :> <<"LazyBound", "message_media_contact_layer81_struct">>)
       @@ (<<26961, 20695>> :> <<"LazyBound", "message_media_photo_struct">>)
       @@ (<<30994, 46879>> :> <<"LazyBound", "message_media_venue_layer71_struct">>)
       @@ (<<31804, 9737>> :> <<"LazyBound", "message_media_geo_live_struct">>)
       @@ (<<31812, 5331>> :> <<"LazyBound", "message_media_document_layer74_struct">>),
   message_structures |->
       (<<17708, 3685>> :> <<"LazyBound", "message_struct">>)
       @@ (<<17657, 46141>> :> <<"LazyBound", "message_layer104_struct">>)
       @@ (<<7323, 4135>> :> <<"LazyBound", "message_layer104_2_struct">>)
       @@ (<<38793, 56004>> :> <<"LazyBound", "message_layer104_3_struct">>)
       @@ (<<33765, 56916>> :> <<"LazyBound", "message_empty_struct">>)
       @@ (<<37085, 56337>> :> <<"LazyBound", "message_layer72_struct">>)
       @@ (<<40473, 41462>> :> <<"LazyBound", "message_service_struct">>)
       @@ (<<40845, 24763>> :> <<"LazyBound", "message_service_old_struct">>)
       @@ (<<1524, 26628>> :> <<"LazyBound", "message_forwarded_old_struct">>)
       @@ (<<41831, 59158>> :> <<"LazyBound", "message_forwarded_old2_struct">>)
       @@ (<<49259, 38407>> :> <<"LazyBound", "message_service_layer48_struct">>)
       @@ (<<49307, 58463>> :> <<"LazyBound", "message_layer68_struct">>)
       @@ (<<42923, 6545>> :> <<"LazyBound", "message_old3_struct">>)
       @@ (<<49926, 805>> :> <<"LazyBound", "message_old4_struct">>)
       @@ (<<61560, 5320>> :> <<"LazyBound", "message_old5_struct">>)
       @@ (<<21845, 22010>> :> <<"LazyBound", "message_secret_struct">>),
   page_list_ordered_item_structures |->
       (<<39133, 35126>> :> <<"LazyBound", "page_list_ordered_item_blocks_struct">>)
       @@ (<<24070, 32839>> :> <<"LazyBound", "page_list_ordered_item_text_struct">>),
   page_block_structures |->
       (<<32835, 25066>> :> <<"LazyBound", "page_block_audio_struct">>)
       @@ (<<36858, 39455>> :> <<"LazyBound", "page_block_subtitle_struct">>)
       @@ (<<39562, 57825>> :> <<"LazyBound", "page_block_ordered_list_struct">>)
       @@ (<<42063, 16118>> :> <<"LazyBound", "page_block_map_struct">>)
       @@ (<<43121, 36293>> :> <<"LazyBound", "page_block_embed_struct">>)
       @@ (<<47791, 58848>> :> <<"LazyBound", "page_block_author_date_struct">>)
       @@ (<<48973, 60034>> :> <<"LazyBound", "page_block_table_struct">>)
       @@ (<<49104, 25836>> :> <<"LazyBound", "page_block_header_struct">>)
       @@ (<<49264, 55614>> :> <<"LazyBound", "page_block_preformatted_struct">>)
       @@ (<<52706, 209>> :> <<"LazyBound", "page_block_embed_layer82_struct">>)
       @@ (<<52749, 14256>> :> <<"LazyBound", "page_block_anchor_struct">>)
       @@ (<<55605, 55547>> :> <<"LazyBound", "page_block_embed_layer60_struct">>)
       @@ (<<55767, 6246>> :> <<"LazyBound", "page_block_video_layer82_struct">>)
       @@ (<<56096, 45448>> :> <<"LazyBound", "page_block_divider_struct">>)
       @@ (<<58600, 32785>> :> <<"LazyBound", "page_block_list_struct">>)
       @@ (<<59846, 39298>> :> <<"LazyBound", "page_block_photo_layer82_struct">>)
       @@ (<<61207, 20917>> :> <<"LazyBound", "page_block_channel_struct">>)
       @@ (<<61739, 46817>> :> <<"LazyBound", "page_block_subheader_struct">>)
       @@ (<<62041, 43019>> :> <<"LazyBound", "page_block_embed_post_struct">>)
       @@ (<<799, 38288>> :> <<"LazyBound", "page_block_slideshow_struct">>)
       @@ (<<2227, 7247>> :> <<"LazyBound", "page_block_collage_layer82_struct">>)
       @@ (<<4876, 35171>> :> <<"LazyBound", "page_block_slideshow_layer82_struct">>)
       @@ (<<4950, 32394>> :> <<"LazyBound", "page_block_unsupported_struct">>)
       @@ (<<5649, 23190>> :> <<"LazyBound", "page_block_related_articles_struct">>)
       @@ (<<5977, 50528>> :> <<"LazyBound", "page_block_photo_struct">>)
       @@ (<<7700, 33680>> :> <<"LazyBound", "page_block_kicker_struct">>)
       @@ (<<9789, 31782>> :> <<"LazyBound", "page_block_blockquote_struct">>)
       @@ (<<10540, 31721>> :> <<"LazyBound", "page_block_embed_post_layer82_struct">>)
       @@ (<<12728, 6783>> :> <<"LazyBound", "page_block_audio_layer82_struct">>)
       @@ (<<14834, 13056>> :> <<"LazyBound", "page_block_cover_struct">>)
       @@ (<<14936, 51188>> :> <<"LazyBound", "page_block_list_layer82_struct">>)
       @@ (<<15707, 25842>> :> <<"LazyBound", "page_block_author_date_layer60_struct">>)
       @@ (<<18042, 1894>> :> <<"LazyBound", "page_block_paragraph_struct">>)
       @@ (<<18567, 2457>> :> <<"LazyBound", "page_block_footer_struct">>)
       @@ (<<20292, 22227>> :> <<"LazyBound", "page_block_pullquote_struct">>)
       @@ (<<26016, 64077>> :> <<"LazyBound", "page_block_collage_struct">>)
       @@ (<<28843, 50173>> :> <<"LazyBound", "page_block_title_struct">>)
       @@ (<<30326, 35821>> :> <<"LazyBound", "page_block_details_struct">>)
       @@ (<<31887, 59318>> :> <<"LazyBound", "page_block_video_struct">>),
   page_structures |->
       (<<39013, 32525>> :> <<"LazyBound", "page_struct">>)
       @@ (<<36334, 27716>> :> <<"LazyBound", "page_part_layer67_struct">>)
       @@ (<<36415, 40638>> :> <<"LazyBound", "page_part_layer82_struct">>)
       @@ (<<44681, 7148>> :> <<"LazyBound", "page_layer110_struct">>)
       @@ (<<55201, 40297>> :> <<"LazyBound", "page_full_layer67_struct">>)
       @@ (<<21870, 51114>> :> <<"LazyBound", "page_full_layer82_struct">>),
   page_list_item_structures |->
       (<<47407, 46797>> :> <<"LazyBound", "page_list_item_text_struct">>)
       @@ (<<9696, 29692>> :> <<"LazyBound", "page_list_item_blocks_struct">>),
   peer_structures |-> peer_structures_tag_map,
   peer_notify_settings_structures |->
       (<<36190, 4590>> :> <<"LazyBound", "peer_notify_settings_layer47_struct">>)
       @@ (<<39629, 42176>> :> <<"LazyBound", "peer_notify_settings_layer77_struct">>)
       @@ (<<44880, 40224>> :> <<"LazyBound", "peer_notify_settings_struct">>)
       @@ (<<28838, 34066>> :> <<"LazyBound", "peer_notify_settings_empty_layer77_struct">>),
   peer_settings_structures |->
       (<<33156, 9933>> :> <<"LazyBound", "peer_settings_v_5_15_0_struct">>)
       @@ (<<29503, 10593>> :> <<"LazyBound", "peer_settings_struct">>),
   phone_call_discard_reason_structures |->
       (<<34276, 8961>> :> <<"LazyBound", "phone_call_discard_reason_missed_struct">>)
       @@ (<<45026, 47161>> :> <<"LazyBound", "phone_call_discard_reason_allow_group_call_struct">>)
       @@ (<<57493, 49568>> :> <<"LazyBound", "phone_call_discard_reason_disconnect_struct">>)
       @@ (<<64247, 59593>> :> <<"LazyBound", "phone_call_discard_reason_busy_struct">>)
       @@ (<<22445, 50832>> :> <<"LazyBound", "phone_call_discard_reason_hangup_struct">>),
   photo_size_structures |->
       (<<3607, 57916>> :> <<"LazyBound", "photo_size_empty_struct">>)
       @@ (<<57520, 48174>> :> <<"LazyBound", "photo_stripped_size_struct">>)
       @@ (<<59815, 13562>> :> <<"LazyBound", "photo_cached_size_struct">>)
       @@ (<<30655, 46619>> :> <<"LazyBound", "photo_size_struct">>),
   photo_structures |->
       (<<64281, 31333>> :> <<"LazyBound", "photo_struct">>)
       @@ (<<53365, 1189>> :> <<"LazyBound", "photo_layer115_struct">>)
       @@ (<<37512, 56617>> :> <<"LazyBound", "photo_layer82_struct">>)
       @@ (<<40007, 32216>> :> <<"LazyBound", "photo_layer97_struct">>)
       @@ (<<50051, 32886>> :> <<"LazyBound", "photo_old2_struct">>)
       @@ (<<52717, 17150>> :> <<"LazyBound", "photo_layer55_struct">>)
       @@ (<<8885, 26449>> :> <<"LazyBound", "photo_old_struct">>)
       @@ (<<9009, 45613>> :> <<"LazyBound", "photo_empty_struct">>),
   poll_structures |->
       (<<34529, 33121>> :> <<"LazyBound", "poll_struct">>)
       @@ (<<54610, 40198>> :> <<"LazyBound", "poll_layer111_struct">>)
       @@ (<<44916, 26502>> :> <<"LazyBound", "poll_to_delete_struct">>),
   poll_results_structures |->
       (<<47836, 49571>> :> <<"LazyBound", "poll_results_struct">>)
       @@ (<<22357, 30810>> :> <<"LazyBound", "poll_results_layer108_struct">>)
       @@ (<<51312, 9378>> :> <<"LazyBound", "poll_results_layer111_struct">>),
   reply_markup_structures |->
       (<<41022, 23429>> :> <<"LazyBound", "reply_keyboard_hide_struct">>)
       @@ (<<62480, 35488>> :> <<"LazyBound", "reply_keyboard_force_reply_struct">>)
       @@ (<<13570, 30092>> :> <<"LazyBound", "reply_keyboard_markup_struct">>)
       @@ (<<18595, 596>> :> <<"LazyBound", "reply_inline_markup_struct">>),
   send_message_action_structures |->
       (<<35058, 32700>> :> <<"LazyBound", "send_message_record_round_action_struct">>)
       @@ (<<36782, 59790>> :> <<"LazyBound", "send_message_upload_document_action_old_struct">>)
       @@ (<<37380, 12279>> :> <<"LazyBound", "send_message_upload_video_action_old_struct">>)
       @@ (<<39178, 15386>> :> <<"LazyBound", "send_message_upload_photo_action_old_struct">>)
       @@ (<<41351, 54895>> :> <<"LazyBound", "send_message_record_video_action_struct">>)
       @@ (<<43532, 55780>> :> <<"LazyBound", "send_message_upload_document_action_struct">>)
       @@ (<<53715, 18982>> :> <<"LazyBound", "send_message_upload_photo_action_struct">>)
       @@ (<<54575, 29687>> :> <<"LazyBound", "send_message_record_audio_action_struct">>)
       @@ (<<56682, 36680>> :> <<"LazyBound", "send_message_game_play_action_struct">>)
       @@ (<<59052, 35439>> :> <<"LazyBound", "send_message_upload_audio_action_old_struct">>)
       @@ (<<59766, 15084>> :> <<"LazyBound", "send_message_upload_video_action_struct">>)
       @@ (<<62289, 55211>> :> <<"LazyBound", "send_message_upload_audio_action_struct">>)
       @@ (<<64862, 51445>> :> <<"LazyBound", "send_message_cancel_action_struct">>)
       @@ (<<5823, 29774>> :> <<"LazyBound", "send_message_typing_action_struct">>)
       @@ (<<5999, 35745>> :> <<"LazyBound", "send_message_geo_location_action_struct">>)
       @@ (<<9278, 7270>> :> <<"LazyBound", "send_message_upload_round_action_struct">>)
       @@ (<<25228, 48239>> :> <<"LazyBound", "send_message_choose_contact_action_struct">>),
   secure_value_type_structures |->
       (<<52195, 7718>> :> <<"LazyBound", "secure_value_type_address_struct">>)
       @@ (<<35091, 31757>> :> <<"LazyBound", "secure_value_type_bank_statement_struct">>)
       @@ (<<1764, 9668>> :> <<"LazyBound", "secure_value_type_driver_license_struct">>)
       @@ (<<36412, 42990>> :> <<"LazyBound", "secure_value_type_email_struct">>)
       @@ (<<41168, 29771>> :> <<"LazyBound", "secure_value_type_identity_card_struct">>)
       @@ (<<39332, 36643>> :> <<"LazyBound", "secure_value_type_internal_passport_struct">>)
       @@ (<<15788, 27136>> :> <<"LazyBound", "secure_value_type_passport_struct">>)
       @@ (<<39395, 32874>> :> <<"LazyBound", "secure_value_type_passport_registration_struct">>)
       @@ (<<40234, 33251>> :> <<"LazyBound", "secure_value_type_personal_details_struct">>)
       @@ (<<45856, 43739>> :> <<"LazyBound", "secure_value_type_phone_struct">>)
       @@ (<<35720, 13448>> :> <<"LazyBound", "secure_value_type_rental_agreement_struct">>)
       @@ (<<59906, 60467>> :> <<"LazyBound", "secure_value_type_temporary_registration_struct">>)
       @@ (<<64566, 38222>> :> <<"LazyBound", "secure_value_type_utility_bill_struct">>),
   rich_text_structures |->
       (<<29766, 38112>> :> <<"LazyBound", "text_plain_struct">>)
       @@ (<<49446, 8900>> :> <<"LazyBound", "text_underline_struct">>)
       @@ (<<51195, 24065>> :> <<"LazyBound", "text_superscript_struct">>)
       @@ (<<55570, 42396>> :> <<"LazyBound", "text_italic_struct">>)
       @@ (<<56381, 33359>> :> <<"LazyBound", "text_empty_struct">>)
       @@ (<<56922, 3542>> :> <<"LazyBound", "text_email_struct">>)
       @@ (<<60778, 34052>> :> <<"LazyBound", "text_subscript_struct">>)
       @@ (<<843, 34337>> :> <<"LazyBound", "text_marked_struct">>)
       @@ (<<2076, 53071>> :> <<"LazyBound", "text_image_struct">>)
       @@ (<<7371, 38506>> :> <<"LazyBound", "text_phone_struct">>)
       @@ (<<13653, 14178>> :> <<"LazyBound", "text_anchor_struct">>)
       @@ (<<15400, 33985>> :> <<"LazyBound", "text_url_struct">>)
       @@ (<<26404, 43972>> :> <<"LazyBound", "text_bold_struct">>)
       @@ (<<27711, 6585>> :> <<"LazyBound", "text_fixed_struct">>)
       @@ (<<32354, 24791>> :> <<"LazyBound", "text_concat_struct">>)
       @@ (<<39928, 48021>> :> <<"LazyBound", "text_strike_struct">>),
   user_full_structures |->
       (<<29781, 22988>> :> <<"LazyBound", "user_full_layer101_struct">>)
       @@ (<<36516, 43137>> :> <<"LazyBound", "user_full_layer98_struct">>)
       @@ (<<60913, 31762>> :> <<"LazyBound", "user_full_struct">>),
   user_structures |->
       (<<37764, 22721>> :> <<"LazyBound", "user_struct">>)
       @@ (<<11795, 62659>> :> <<"LazyBound", "user_layer104_struct">>)
       @@ (<<45722, 55244>> :> <<"LazyBound", "user_deleted_old_struct">>)
       @@ (<<51891, 24088>> :> <<"LazyBound", "user_contact_old2_struct">>)
       @@ (<<53517, 38810>> :> <<"LazyBound", "user_layer65_struct">>)
       @@ (<<54785, 28026>> :> <<"LazyBound", "user_deleted_old2_struct">>)
       @@ (<<55756, 50415>> :> <<"LazyBound", "user_request_old2_struct">>)
       @@ (<<62203, 33561>> :> <<"LazyBound", "user_contact_old_struct">>)
       @@ (<<1884, 63400>> :> <<"LazyBound", "user_foreign_old2_struct">>)
       @@ (<<7264, 58888>> :> <<"LazyBound", "user_self_old3_struct">>)
       @@ (<<8194, 20666>> :> <<"LazyBound", "user_empty_struct">>)
       @@ (<<8932, 36978>> :> <<"LazyBound", "user_old_struct">>)
       @@ (<<8936, 52912>> :> <<"LazyBound", "user_request_old_struct">>)
       @@ (<<21012, 51357>> :> <<"LazyBound", "user_foreign_old_struct">>)
       @@ (<<28679, 46161>> :> <<"LazyBound", "user_self_old2_struct">>)
       @@ (<<29189, 13804>> :> <<"LazyBound", "user_self_old_struct">>),
   user_profile_photo_structures |-> user_profile_photo_structures_tag_map,
   user_status_structures |-> user_status_structures_tag_map,
   video_structures |->
       (<<49414, 22696>> :> <<"LazyBound", "video_empty_layer45_struct">>)
       @@ (<<61087, 19021>> :> <<"LazyBound", "video_old3_struct">>)
       @@ (<<63272, 34771>> :> <<"LazyBound", "video_layer45_struct">>)
       @@ (<<14479, 41873>> :> <<"LazyBound", "video_old2_struct">>)
       @@ (<<21845, 21843>> :> <<"LazyBound", "video_encrypted_struct">>)
       @@ (<<23044, 42143>> :> <<"LazyBound", "video_old_struct">>),
   video_size_structures |->
       (<<59441, 50518>> :> <<"LazyBound", "video_size_struct">>)
       @@ (<<17243, 47495>> :> <<"LazyBound", "video_size_layer115_struct">>),
   wall_paper_settings_structures |->
       (<<41263, 16568>> :> <<"LazyBound", "wall_paper_settings_layer106_struct">>)
       @@ (<<1288, 27896>> :> <<"LazyBound", "wall_paper_settings_struct">>),
   wall_paper_structures |->
       (<<42039, 50157>> :> <<"LazyBound", "wall_paper_struct">>)
       @@ (<<35572, 2853>> :> <<"LazyBound", "wall_paper_no_file_struct">>)
       @@ (<<61519, 37356>> :> <<"LazyBound", "wall_paper_layer94_struct">>),
   web_document_structures |->
       (<<50714, 52184>> :> <<"LazyBound", "web_document_layer81_struct">>)
       @@ (<<63944, 48326>> :> <<"LazyBound", "web_document_no_proxy_struct">>)
       @@ (<<7255, 3793>> :> <<"LazyBound", "web_document_struct">>),
   web_page_structures |->
       (<<59548, 17842>> :> <<"LazyBound", "web_page_struct">>)
       @@ (<<24327, 46268>> :> <<"LazyBound", "web_page_layer104_struct">>)
       @@ (<<64100, 57714>> :> <<"LazyBound", "web_page_layer107_struct">>)
       @@ (<<54298, 20839>> :> <<"LazyBound", "web_page_url_pending_struct">>)
       @@ (<<51842, 3799>> :> <<"LazyBound", "web_page_layer58_struct">>)
       @@ (<<50566, 55836>> :> <<"LazyBound", "web_page_pending_struct">>)
       @@ (<<41758, 41141>> :> <<"LazyBound", "web_page_old_struct">>)
       @@ (<<29457, 51729>> :> <<"LazyBound", "web_page_not_modified_struct">>)
       @@ (<<34180, 38003>> :> <<"LazyBound", "web_page_not_modified_layer110_struct">>)
       @@ (<<60180, 30696>> :> <<"LazyBound", "web_page_empty_struct">>)]

\* <name>_structures(self, name): the Struct that peeks the signature and
\* switches on it.
structures(method, name) ==
  Struct(<<Field("_signature", <<"Peek", <<"Int32ul">>>>),
           Field(name, <<"Switch", "_signature", tblob_tag_map[method]>>)>>)

\* The Struct each <name>_struct method returns. <<"self", name>> is the
\* call self.<name>(), <<"LazyBound", name>> the call
\* LazyBound(lambda: self.<name>()), <<"structures", method, name>> the
\* call self.<method>(name).
tblob ==
  [audio_old2_struct |->
     Struct(<<Field("sname", <<"Computed", "audio_old2">>),
       Field("signature", <<"Const", <<51116, 25750>>>>), Field("id",
       <<"Int64ul">>), Field("access_hash", <<"Int64ul">>), Field("user_id",
       <<"Int32ul">>), Field("date", ttimestamp_struct), Field("duration",
       <<"Int32ul">>), Field("mime_type", tstring_struct), Field("size",
       <<"Int32ul">>), Field("dc_id", <<"Int32ul">>)>>),
   audio_layer45_struct |->
     Struct(<<Field("sname", <<"Computed", "audio_layer45">>),
       Field("signature", <<"Const", <<63971, 20565>>>>), Field("id",
       <<"Int64ul">>), Field("access_hash", <<"Int64ul">>), Field("date",
       ttimestamp_struct), Field("duration", <<"Int32ul">>),
       Field("mime_type", tstring_struct), Field("size", <<"Int32ul">>),
       Field("dc_id", <<"Int32ul">>)>>),
   audio_old_struct |->
     Struct(<<Field("sname", <<"Computed", "audio_old">>), Field("signature",
       <<"Const", <<17012, 9703>>>>), Field("id", <<"Int64ul">>),
       Field("access_hash", <<"Int64ul">>), Field("user_id", <<"Int32ul">>),
       Field("date", ttimestamp_struct), Field("duration", <<"Int32ul">>),
       Field("size", <<"Int32ul">>), Field("dc_id", <<"Int32ul">>)>>),
   audio_encrypted_struct |->
     Struct(<<Field("sname", <<"Computed", "audio_encrypted">>),
       Field("signature", <<"Const", <<21845, 22006>>>>), Field("id",
       <<"Int64ul">>), Field("access_hash", <<"Int64ul">>), Field("user_id",
       <<"Int32ul">>), Field("date", ttimestamp_struct), Field("duration",
       <<"Int32ul">>), Field("size", <<"Int32ul">>), Field("dc_id",
       <<"Int32ul">>), Field("key", tbytes_struct), Field("iv",
       tbytes_struct)>>),
   audio_empty_layer45_struct |->
     Struct(<<Field("sname", <<"Computed", "audio_empty_layer45">>),
       Field("signature", <<"Const", <<22633, 35032>>>>), Field("id",
       <<"Int64ul">>)>>),
   bot_command_struct |-> bot_command_struct,
   base_theme_night_struct |->
     Struct(<<Field("sname", <<"Computed", "base_theme_night">>),
       Field("signature", <<"Const", <<47027, 7848>>>>)>>),
   base_theme_classic_struct |->
     Struct(<<Field("sname", <<"Computed", "base_theme_classic">>),
       Field("signature", <<"Const", <<50081, 9314>>>>)>>),
   base_theme_day_struct |->
     Struct(<<Field("sname", <<"Computed", "base_theme_day">>),
       Field("signature", <<"Const", <<64472, 5768>>>>)>>),
   base_theme_arctic_struct |->
     Struct(<<Field("sname", <<"Computed", "base_theme_arctic">>),
       Field("signature", <<"Const", <<23313, 4698>>>>)>>),
   base_theme_tinted_struct |->
     Struct(<<Field("sname", <<"Computed", "base_theme_tinted">>),
       Field("signature", <<"Const", <<27999, 30702>>>>)>>),
   bot_info_struct |-> bot_info_struct,
   bot_info_layer48_struct |->
     Struct(<<Field("sname", <<"Computed", "bot_info_layer48">>),
       Field("signature", <<"Const", <<2511, 22621>>>>), Field("user_id",
       <<"Int32ul">>), Field("version", <<"Int32ul">>), Field("unknown",
       tstring_struct), Field("description", tstring_struct),
       Field("_vector_sig", <<"Const", <<7349, 50197>>>>),
       Field("bot_commands_num", <<"Int32ul">>), Field("bot_commands_array",
       <<"Array", "bot_commands_num", <<"self", "bot_command_struct">>>>)>>),
   bot_info_empty_layer48_struct |->
     Struct(<<Field("sname", <<"Computed", "bot_info_empty_layer48">>),
       Field("signature", <<"Const", <<47918, 14286>>>>)>>),
   channel_admin_rights_layer92_struct |->
     Struct(<<Field("sname", <<"Computed", "channel_admin_rights_layer92">>),
       Field("signature", <<"Const", <<23932, 60325>>>>), Field("flags",
       <<"FlagsEnum_Int32ul", [change_info |-> 0, post_messages |-> 1,
       edit_messages |-> 2, delete_messages |-> 3, ban_users |-> 4,
       invite_users |-> 5, pin_messages |-> 7, add_admins |-> 9,
       manage_call |-> 10]>>)>>),
   channel_banned_rights_layer92_struct |->
     Struct(<<Field("sname", <<"Computed",
       "channel_banned_rights_layer92">>), Field("signature", <<"Const",
       <<22735, 16969>>>>), Field("flags", <<"FlagsEnum_Int32ul",
       [view_messages |-> 0, send_messages |-> 1, send_media |-> 2,
       send_stickers |-> 3, send_gifs |-> 4, send_games |-> 5,
       send_inline |-> 6, embed_links |-> 7]>>), Field("until_timestamp",
       <<"Int32ul">>)>>),
   chat_admin_rights_struct |->
     Struct(<<Field("sname", <<"Computed", "chat_admin_rights">>),
       Field("signature", <<"Const", <<24498, 9429>>>>), Field("flags",
       <<"FlagsEnum_Int32ul", [change_info |-> 0, post_messages |-> 1,
       edit_messages |-> 2, delete_messages |-> 3, ban_users |-> 4,
       invite_users |-> 5, pin_messages |-> 7, add_admins |-> 9]>>)>>),
   chat_banned_rights_struct |->
     Struct(<<Field("sname", <<"Computed", "chat_banned_rights">>),
       Field("signature", <<"Const", <<40722, 1048>>>>), Field("flags",
       <<"FlagsEnum_Int32ul", [view_messages |-> 0, send_messages |-> 1,
       send_media |-> 2, send_stickers |-> 3, send_gifs |-> 4,
       send_games |-> 5, send_inline |-> 6, embed_links |-> 7,
       send_polls |-> 8, change_info |-> 10, invite_users |-> 15,
       pin_messages |-> 17]>>), Field("until_timestamp", <<"Int32ul">>)>>),
   chat_empty_struct |->
     Struct(<<Field("sname", <<"Computed", "chat_empty">>),
       Field("signature", <<"Const", <<39842, 55296>>>>), Field("id",
       <<"Int32ul">>), Field("title", <<"Computed", "DELETED">>)>>),
   channel_forbidden_struct |->
     Struct(<<Field("sname", <<"Computed", "channel_forbidden">>),
       Field("signature", <<"Const", <<10397, 42802>>>>), Field("flags",
       <<"FlagsEnum_Int32ul", [broadcast |-> 5, megagroup |-> 8,
       has_expiration |-> 16]>>), Field("id", <<"Int32ul">>),
       Field("access_hash", <<"Int64ul">>), Field("title", tstring_struct),
       Field("util_timestamp", <<"If", "has_expiration", <<"Int32ul">>>>)>>),
   channel_forbidden_layer52_struct |->
     Struct(<<Field("sname", <<"Computed", "channel_forbidden_layer52">>),
       Field("signature", <<"Const", <<11653, 33580>>>>), Field("id",
       <<"Int32ul">>), Field("access_hash", <<"Int64ul">>), Field("title",
       tstring_struct)>>),
   channel_forbidden_layer67_struct |->
     Struct(<<Field("sname", <<"Computed", "channel_forbidden_layer67">>),
       Field("signature", <<"Const", <<34103, 30799>>>>), Field("flags",
       <<"FlagsEnum_Int32ul", [broadcast |-> 5, megagroup |-> 8]>>),
       Field("id", <<"Int32ul">>), Field("access_hash", <<"Int64ul">>),
       Field("title", tstring_struct)>>),
   channel_layer104_struct |->
     Struct(<<Field("sname", <<"Computed", "channel_layer104">>),
       Field("signature", <<"Const", <<19955, 2100>>>>), Field("flags",
       <<"FlagsEnum_Int32ul", [creator |-> 0, left |-> 2, broadcast |-> 5,
       has_username |-> 6, verified |-> 7, megagroup |-> 8, restricted |-> 9,
       signatures |-> 11, is_min |-> 12, has_admin_rights |-> 14,
       has_banned_rights |-> 15, has_participant_count |-> 17,
       has_access_hash |-> 13, scam |-> 19]>>), Field("id", <<"Int32ul">>),
       Field("access_hash", <<"If", "has_access_hash", <<"Int64ul">>>>),
       Field("title", tstring_struct), Field("username", <<"If",
       "has_username", tstring_struct>>), Field("photo", <<"structures",
       "chat_photo_structures", "photo">>), Field("date", ttimestamp_struct),
       Field("version", <<"Int32ul">>), Field("restrict_reason", <<"If",
       "restricted", tstring_struct>>), Field("admin_rights", <<"If",
       "has_admin_rights", <<"self", "chat_admin_rights_struct">>>>),
       Field("banned_rights", <<"If", "has_banned_rights", <<"self",
       "chat_banned_rights_struct">>>>), Field("participants_count", <<"If",
       "has_participant_count", <<"Int32ul">>>>)>>),
   channel_old_struct |->
     Struct(<<Field("sname", <<"Computed", "channel_old">>),
       Field("signature", <<"Const", <<26510, 38279>>>>), Field("flags",
       <<"FlagsEnum_Int32ul", [creator |-> 0, kicked |-> 1, left |-> 2,
       moderator |-> 4, broadcast |-> 5, has_username |-> 6, verified |-> 7,
       megagroup |-> 8, explicit_content |-> 9]>>), Field("id",
       <<"Int32ul">>), Field("access_hash", <<"Int64ul">>), Field("title",
       tstring_struct), Field("username", <<"If", "has_username",
       tstring_struct>>), Field("photo", <<"structures",
       "chat_photo_structures", "photo">>), Field("date", ttimestamp_struct),
       Field("version", <<"Int32ul">>)>>),
   channel_layer48_struct |->
     Struct(<<Field("sname", <<"Computed", "channel_layer48">>),
       Field("signature", <<"Const", <<19227, 29958>>>>), Field("flags",
       <<"FlagsEnum_Int32ul", [creator |-> 0, kicked |-> 1, left |-> 2,
       moderator |-> 4, broadcast |-> 5, has_username |-> 6, verified |-> 7,
       megagroup |-> 8, restricted |-> 9, signatures |-> 11, is_min |-> 12,
       has_access_hash |-> 13]>>), Field("id", <<"Int32ul">>),
       Field("access_hash", <<"If", "has_access_hash", <<"Int64ul">>>>),
       Field("title", tstring_struct), Field("username", <<"If",
       "has_username", tstring_struct>>), Field("photo", <<"structures",
       "chat_photo_structures", "photo">>), Field("date", ttimestamp_struct),
       Field("version", <<"Int32ul">>), Field("restrict_reason", <<"If",
       "restricted", tstring_struct>>)>>),
   channel_layer67_struct |->
     Struct(<<Field("sname", <<"Computed", "channel_layer67">>),
       Field("signature", <<"Const", <<41293, 51794>>>>), Field("flags",
       <<"FlagsEnum_Int32ul", [creator |-> 0, kicked |-> 1, left |-> 2,
       moderator |-> 4, broadcast |-> 5, has_username |-> 6, verified |-> 7,
       megagroup |-> 8, restricted |-> 9, signatures |-> 11, is_min |-> 12,
       has_access_hash |-> 13]>>), Field("id", <<"Int32ul">>),
       Field("access_hash", <<"If", "has_access_hash", <<"Int64ul">>>>),
       Field("title", tstring_struct), Field("username", <<"If",
       "has_username", tstring_struct>>), Field("photo", <<"structures",
       "chat_photo_structures", "photo">>), Field("date", ttimestamp_struct),
       Field("version", <<"Int32ul">>), Field("restrict_reason", <<"If",
       "restricted", tstring_struct>>)>>),
   channel_layer72_struct |->
     Struct(<<Field("sname", <<"Computed", "channel_layer72">>),
       Field("signature", <<"Const", <<3252, 19228>>>>), Field("flags",
       <<"FlagsEnum_Int32ul", [creator |-> 0, left |-> 2, broadcast |-> 5,
       has_username |-> 6, verified |-> 7, megagroup |-> 8, restricted |-> 9,
       signatures |-> 11, is_min |-> 12, has_admin_rights |-> 14,
       has_banned_rights |-> 15, has_access_hash |-> 13]>>), Field("id",
       <<"Int32ul">>), Field("access_hash", <<"If", "has_access_hash",
       <<"Int64ul">>>>), Field("title", tstring_struct), Field("username",
       <<"If", "has_username", tstring_struct>>), Field("date",
       ttimestamp_struct), Field("version", <<"Int32ul">>),
       Field("restrict_reason", <<"If", "restricted", tstring_struct>>),
       Field("admin_rights", <<"If", "has_admin_rights", <<"self",
       "channel_admin_rights_layer92_struct">>>>), Field("banned_rights",
       <<"If", "has_banned_rights", <<"self",
       "channel_banned_rights_layer92_struct">>>>)>>),
   channel_layer77_struct |->
     Struct(<<Field("sname", <<"Computed", "channel_layer77">>),
       Field("signature", <<"Const", <<17675, 28949>>>>), Field("flags",
       <<"FlagsEnum_Int32ul", [creator |-> 0, left |-> 2, broadcast |-> 5,
       has_username |-> 6, verified |-> 7, megagroup |-> 8, restricted |-> 9,
       signatures |-> 11, is_min |-> 12, has_admin_rights |-> 14,
       has_banned_rights |-> 15, has_participant_count |-> 17,
       has_access_hash |-> 13]>>), Field("id", <<"Int32ul">>),
       Field("access_hash", <<"If", "has_access_hash", <<"Int64ul">>>>),
       Field("title", tstring_struct), Field("username", <<"If",
       "has_username", tstring_struct>>), Field("photo", <<"structures",
       "chat_photo_structures", "photo">>), Field("date", ttimestamp_struct),
       Field("version", <<"Int32ul">>), Field("restrict_reason", <<"If",
       "restricted", tstring_struct>>), Field("admin_rights", <<"If",
       "has_admin_rights", <<"self",
       "channel_admin_rights_layer92_struct">>>>), Field("banned_rights",
       <<"If", "has_banned_rights", <<"self",
       "channel_banned_rights_layer92_struct">>>>),
       Field("participants_count", <<"If", "has_participant_count",
       <<"Int32ul">>>>)>>),
   channel_layer92_struct |->
     Struct(<<Field("sname", <<"Computed", "channel_layer92">>),
       Field("signature", <<"Const", <<51337, 29868>>>>), Field("flags",
       <<"FlagsEnum_Int32ul", [creator |-> 0, left |-> 2, broadcast |-> 5,
       has_username |-> 6, verified |-> 7, megagroup |-> 8, restricted |-> 9,
       signatures |-> 11, is_min |-> 12, has_admin_rights |-> 14,
       has_banned_rights |-> 15, has_participant_count |-> 17,
       has_access_hash |-> 13]>>), Field("id", <<"Int32ul">>),
       Field("access_hash", <<"If", "has_access_hash", <<"Int64ul">>>>),
       Field("title", tstring_struct), Field("username", <<"If",
       "has_username", tstring_struct>>), Field("photo", <<"structures",
       "chat_photo_structures", "photo">>), Field("date", ttimestamp_struct),
       Field("version", <<"Int32ul">>), Field("restrict_reason", <<"If",
       "restricted", tstring_struct>>), Field("admin_rights", <<"If",
       "has_admin_rights", <<"self",
       "channel_admin_rights_layer92_struct">>>>), Field("banned_rights",
       <<"If", "has_banned_rights", <<"self",
       "channel_banned_rights_layer92_struct">>>>),
       Field("participants_count", <<"If", "has_participant_count",
       <<"Int32ul">>>>)>>),
   channel_struct |->
     Struct(<<Field("sname", <<"Computed", "channel">>), Field("signature",
       <<"Const", <<54042, 38430>>>>), Field("flags", <<"FlagsEnum_Int32ul",
       [creator |-> 0, left |-> 2, broadcast |-> 5, has_username |-> 6,
       verified |-> 7, megagroup |-> 8, restricted |-> 9, signatures |-> 11,
       is_min |-> 12, has_access_hash |-> 13, has_admin_rights |-> 14,
       has_banned_rights |-> 15, has_participant_count |-> 17,
       is_scam |-> 19, has_link |-> 20, has_geo |-> 21,
       is_slowmode_enabled |-> 22]>>), Field("id", <<"Int32ul">>),
       Field("access_hash", <<"If", "has_access_hash", <<"Int64ul">>>>),
       Field("title", tstring_struct), Field("username", <<"If",
       "has_username", tstring_struct>>), Field("photo", <<"structures",
       "chat_photo_structures", "photo">>), Field("date", ttimestamp_struct),
       Field("version", <<"Int32ul">>), Field("restrict_reasons", <<"If",
       "restricted", Struct(<<Field("_vector_sig", <<"Const", <<7349,
       50197>>>>), Field("restrict_reasons_num", <<"Int32ul">>),
       Field("restrict_reasons_array", <<"Array", "restrict_reasons_num",
       <<"self", "restriction_reason_struct">>>>)>>)>>),
       Field("admin_rights", <<"If", "has_admin_rights", <<"self",
       "chat_admin_rights_struct">>>>), Field("banned_rights", <<"If",
       "has_banned_rights", <<"self", "chat_banned_rights_struct">>>>),
       Field("participants_count", <<"If", "has_participant_count",
       <<"Int32ul">>>>)>>),
   chat_struct |->
     Struct(<<Field("sname", <<"Computed", "chat">>), Field("signature",
       <<"Const", <<15322, 7134>>>>), Field("flags", <<"FlagsEnum_Int32ul",
       [creator |-> 0, kicked |-> 1, left |-> 2, deactivated |-> 5,
       is_migrated |-> 6, has_admin_rights |-> 14,
       has_banned_rights |-> 18]>>), Field("id", <<"Int32ul">>),
       Field("title", tstring_struct), Field("photo", <<"structures",
       "chat_photo_structures", "photo">>), Field("participants_count",
       <<"Int32ul">>), Field("date", ttimestamp_struct), Field("version",
       <<"Int32ul">>), Field("migrated_to", <<"If", "is_migrated",
       <<"structures", "input_channel_structures", "migrated_to">>>>),
       Field("admin_rights", <<"If", "has_admin_rights", <<"self",
       "chat_admin_rights_struct">>>>), Field("banned_rights", <<"If",
       "has_banned_rights", <<"self", "chat_banned_rights_struct">>>>)>>),
   chat_old_struct |->
     Struct(<<Field("sname", <<"Computed", "chat_old">>), Field("signature",
       <<"Const", <<28316, 39879>>>>), Field("id", <<"Int32ul">>),
       Field("title", tstring_struct), Field("photo", <<"structures",
       "chat_photo_structures", "photo">>), Field("participants_count",
       <<"Int32ul">>), Field("date", ttimestamp_struct), Field("left",
       tbool_struct), Field("version", <<"Int32ul">>)>>),
   chat_old2_struct |->
     Struct(<<Field("sname", <<"Computed", "chat_old2">>), Field("signature",
       <<"Const", <<29458, 48200>>>>), Field("flags", <<"FlagsEnum_Int32ul",
       [creator |-> 0, kicked |-> 1, left |-> 2, deactivated |-> 5]>>),
       Field("id", <<"Int32ul">>), Field("title", tstring_struct),
       Field("photo", <<"structures", "chat_photo_structures", "photo">>),
       Field("participants_count", <<"Int32ul">>), Field("date",
       ttimestamp_struct), Field("version", <<"Int32ul">>)>>),
   chat_forbidden_struct |->
     Struct(<<Field("sname", <<"Computed", "chat_forbidden">>),
       Field("signature", <<"Const", <<1842, 35803>>>>), Field("id",
       <<"Int32ul">>), Field("title", tstring_struct)>>),
   chat_forbidden_old_struct |->
     Struct(<<Field("sname", <<"Computed", "chat_forbidden_old">>),
       Field("signature", <<"Const", <<64268, 52289>>>>), Field("id",
       <<"Int32ul">>), Field("title", tstring_struct), Field("date",
       <<"Int32ul">>)>>),
   chat_layer92_struct |->
     Struct(<<Field("sname", <<"Computed", "chat_layer92">>),
       Field("signature", <<"Const", <<55580, 56660>>>>), Field("flags",
       <<"FlagsEnum_Int32ul", [creator |-> 0, kicked |-> 1, left |-> 2,
       deactivated |-> 5, is_migrated |-> 6]>>), Field("id", <<"Int32ul">>),
       Field("title", tstring_struct), Field("photo", <<"structures",
       "chat_photo_structures", "photo">>), Field("participants_count",
       <<"Int32ul">>), Field("date", ttimestamp_struct), Field("version",
       <<"Int32ul">>), Field("migrated_to", <<"If", "is_migrated",
       <<"structures", "input_channel_structures", "migrated_to">>>>)>>),
   chat_photo_layer115_struct |->
     Struct(<<Field("sname", <<"Computed", "chat_photo_layer115">>),
       Field("signature", <<"Const", <<18268, 56277>>>>),
       Field("photo_small", <<"structures", "file_location_structures",
       "photo_small">>), Field("photo_big", <<"structures",
       "file_location_structures", "photo_big">>), Field("dc_id",
       <<"Int32ul">>)>>),
   chat_photo_empty_struct |->
     Struct(<<Field("sname", <<"Computed", "chat_photo_empty">>),
       Field("signature", <<"Const", <<14273, 284>>>>)>>),
   chat_photo_layer97_struct |->
     Struct(<<Field("sname", <<"Computed", "chat_photo_layer97">>),
       Field("signature", <<"Const", <<24915, 10090>>>>),
       Field("photo_small", <<"structures", "file_location_structures",
       "photo_small">>), Field("photo_big", <<"structures",
       "file_location_structures", "photo_big">>)>>),
   chat_photo_struct |->
     Struct(<<Field("sname", <<"Computed", "chat_photo">>),
       Field("signature", <<"Const", <<53771, 40764>>>>), Field("flags",
       <<"FlagsEnum_Int32ul", [has_video |-> 0]>>), Field("photo_small",
       <<"structures", "file_location_structures", "photo_small">>),
       Field("photo_big", <<"structures", "file_location_structures",
       "photo_big">>), Field("dc_id", <<"Int32ul">>)>>),
   contact_link_contact_struct |->
     Struct(<<Field("sname", <<"Computed", "contact_link_contact">>),
       Field("signature", <<"Const", <<54530, 49872>>>>)>>),
   contact_link_none_struct |->
     Struct(<<Field("sname", <<"Computed", "contact_link_none">>),
       Field("signature", <<"Const", <<65261, 54189>>>>)>>),
   contact_link_has_phone_struct |->
     Struct(<<Field("sname", <<"Computed", "contact_link_has_phone">>),
       Field("signature", <<"Const", <<9871, 16217>>>>)>>),
   contact_link_unknown_struct |->
     Struct(<<Field("sname", <<"Computed", "contact_link_unknown">>),
       Field("signature", <<"Const", <<24399, 37447>>>>)>>),
   contacts_link_layer101_struct |->
     Struct(<<Field("sname", <<"Computed", "contacts_link_layer101">>),
       Field("signature", <<"Const", <<15054, 18508>>>>), Field("my_link",
       <<"structures", "contact_link_structures", "my_link">>),
       Field("foreign_link", <<"structures", "contact_link_structures",
       "foreign_link">>), Field("user", <<"structures", "user_structures",
       "user">>)>>),
   decrypted_message_action_set_message_ttl_struct |->
     Struct(<<Field("sname", <<"Computed",
       "decrypted_message_action_set_message_ttl">>), Field("signature",
       <<"Const", <<41331, 15084>>>>), Field("ttl_seconds", <<"Int32ul">>)>>),
   decrypted_message_action_screenshot_messages_struct |->
     Struct(<<Field("sname", <<"Computed",
       "decrypted_message_action_screenshot_messages">>), Field("signature",
       <<"Const", <<35521, 62581>>>>), Field("_vector_sig", <<"Const",
       <<7349, 50197>>>>), Field("random_ids_num", <<"Int32ul">>),
       Field("random_ids_array", <<"Array", "random_ids_num",
       <<"Int64ul">>>>)>>),
   decrypted_message_action_noop_struct |->
     Struct(<<Field("sname", <<"Computed",
       "decrypted_message_action_noop">>), Field("signature", <<"Const",
       <<43055, 56675>>>>)>>),
   decrypted_message_action_typing_struct |->
     Struct(<<Field("sname", <<"Computed",
       "decrypted_message_action_typing">>), Field("signature", <<"Const",
       <<52402, 30273>>>>), Field("action", <<"structures",
       "send_message_action_structures", "action">>)>>),
   decrypted_message_action_abort_key_struct |->
     Struct(<<Field("sname", <<"Computed",
       "decrypted_message_action_abort_key">>), Field("signature", <<"Const",
       <<56581, 60523>>>>), Field("exchange_id", <<"Int64ul">>)>>),
   decrypted_message_action_commit_key_struct |->
     Struct(<<Field("sname", <<"Computed",
       "decrypted_message_action_commit_key">>), Field("signature",
       <<"Const", <<60462, 2971>>>>), Field("exchange_id", <<"Int64ul">>),
       Field("key_fingerprint", <<"Int64ul">>)>>),
   decrypted_message_action_notify_layer_struct |->
     Struct(<<Field("sname", <<"Computed",
       "decrypted_message_action_notify_layer">>), Field("signature",
       <<"Const", <<62212, 34947>>>>), Field("layer", <<"Int32ul">>)>>),
   decrypted_message_action_request_key_struct |->
     Struct(<<Field("sname", <<"Computed",
       "decrypted_message_action_request_key">>), Field("signature",
       <<"Const", <<62409, 24859>>>>), Field("exchange_id", <<"Int64ul">>),
       Field("g_a", tbytes_struct)>>),
   decrypted_message_action_read_messages_struct |->
     Struct(<<Field("sname", <<"Computed",
       "decrypted_message_action_read_messages">>), Field("signature",
       <<"Const", <<3151, 16574>>>>), Field("_vector_sig", <<"Const", <<7349,
       50197>>>>), Field("random_ids_num", <<"Int32ul">>),
       Field("random_ids_array", <<"Array", "random_ids_num",
       <<"Int64ul">>>>)>>),
   decrypted_message_action_resend_struct |->
     Struct(<<Field("sname", <<"Computed",
       "decrypted_message_action_resend">>), Field("signature", <<"Const",
       <<20753, 4272>>>>), Field("start_seq_no", <<"Int32ul">>),
       Field("end_seq_no", <<"Int32ul">>)>>),
   decrypted_message_action_delete_messages_struct |->
     Struct(<<Field("sname", <<"Computed",
       "decrypted_message_action_delete_messages">>), Field("signature",
       <<"Const", <<25953, 17156>>>>), Field("_vector_sig", <<"Const",
       <<7349, 50197>>>>), Field("random_ids_num", <<"Int32ul">>),
       Field("random_ids_array", <<"Array", "random_ids_num",
       <<"Int64ul">>>>)>>),
   decrypted_message_action_flush_history_struct |->
     Struct(<<Field("sname", <<"Computed",
       "decrypted_message_action_flush_history">>), Field("signature",
       <<"Const", <<26393, 58460>>>>)>>),
   decrypted_message_action_accept_key_struct |->
     Struct(<<Field("sname", <<"Computed",
       "decrypted_message_action_accept_key">>), Field("signature",
       <<"Const", <<28641, 29531>>>>), Field("exchange_id", <<"Int64ul">>),
       Field("g_b", tbytes_struct), Field("key_fingerprint",
       <<"Int64ul">>)>>),
   document_attribute_has_stickers_struct |->
     Struct(<<Field("sname", <<"Computed",
       "document_attribute_has_stickers">>), Field("signature", <<"Const",
       <<38913, 54007>>>>)>>),
   document_attribute_sticker_old_struct |->
     Struct(<<Field("sname", <<"Computed",
       "document_attribute_sticker_old">>), Field("signature", <<"Const",
       <<64266, 22311>>>>), Field("alt", tstring_struct)>>),
   document_attribute_sticker_old2_struct |->
     Struct(<<Field("sname", <<"Computed",
       "document_attribute_sticker_old2">>), Field("signature", <<"Const",
       <<39244, 39042>>>>), Field("alt", tstring_struct)>>),
   document_attribute_audio_struct |->
     Struct(<<Field("sname", <<"Computed", "document_attribute_audio">>),
       Field("signature", <<"Const", <<38994, 63942>>>>), Field("flags",
       <<"FlagsEnum_Int32ul", [has_title |-> 0, has_performer |-> 1,
       has_waveform |-> 2, is_voice |-> 10]>>), Field("duration",
       <<"Int32ul">>), Field("title", <<"If", "has_title", tstring_struct>>),
       Field("performer", <<"If", "has_performer", tstring_struct>>),
       Field("waveform", <<"If", "has_waveform", tbytes_struct>>)>>),
   document_attribute_audio_layer45_struct |->
     Struct(<<Field("sname", <<"Computed",
       "document_attribute_audio_layer45">>), Field("signature", <<"Const",
       <<57042, 6368>>>>), Field("duration", <<"Int32ul">>), Field("title",
       tstring_struct), Field("performer", tstring_struct)>>),
   document_attribute_audio_old_struct |->
     Struct(<<Field("sname", <<"Computed", "document_attribute_audio_old">>),
       Field("signature", <<"Const", <<1300, 18661>>>>), Field("duration",
       <<"Int32ul">>)>>),
   document_attribute_video_struct |->
     Struct(<<Field("sname", <<"Computed", "document_attribute_video">>),
       Field("signature", <<"Const", <<3824, 11494>>>>), Field("flags",
       <<"FlagsEnum_Int32ul", [round_message |-> 0,
       supports_streaming |-> 1]>>), Field("duration", <<"Int32ul">>),
       Field("w", <<"Int32ul">>), Field("h", <<"Int32ul">>)>>),
   document_attribute_animated_struct |->
     Struct(<<Field("sname", <<"Computed", "document_attribute_animated">>),
       Field("signature", <<"Const", <<4533, 35129>>>>)>>),
   document_attribute_filename_struct |->
     Struct(<<Field("sname", <<"Computed", "document_attribute_filename">>),
       Field("signature", <<"Const", <<5465, 104>>>>), Field("file_name",
       tstring_struct)>>),
   document_attribute_sticker_layer55_struct |->
     Struct(<<Field("sname", <<"Computed",
       "document_attribute_sticker_layer55">>), Field("signature", <<"Const",
       <<14933, 25346>>>>), Field("alt", tstring_struct),
       Field("sticker_set", <<"structures", "input_sticker_set_structures",
       "sticker_set">>)>>),
   document_attribute_video_layer65_struct |->
     Struct(<<Field("sname", <<"Computed",
       "document_attribute_video_layer65">>), Field("signature", <<"Const",
       <<22800, 52427>>>>), Field("duration", <<"Int32ul">>), Field("w",
       <<"Int32ul">>), Field("h", <<"Int32ul">>)>>),
   document_attribute_sticker_struct |->
     Struct(<<Field("sname", <<"Computed", "document_attribute_sticker">>),
       Field("signature", <<"Const", <<25369, 54802>>>>), Field("flags",
       <<"FlagsEnum_Int32ul", [has_mask_coords |-> 0, mask |-> 1]>>),
       Field("alt", tstring_struct), Field("sticker_set", <<"structures",
       "input_sticker_set_structures", "sticker_set">>), Field("mask_coords",
       <<"If", "has_mask_coords", <<"self", "mask_coords_struct">>>>)>>),
   document_attribute_image_size_struct |->
     Struct(<<Field("sname", <<"Computed",
       "document_attribute_image_size">>), Field("signature", <<"Const",
       <<27703, 49500>>>>), Field("w", <<"Int32ul">>), Field("h",
       <<"Int32ul">>)>>),
   document_empty_struct |->
     Struct(<<Field("sname", <<"Computed", "document_empty">>),
       Field("signature", <<"Const", <<14072, 51313>>>>), Field("id",
       <<"Int64ul">>)>>),
   document_layer82_struct |->
     Struct(<<Field("sname", <<"Computed", "document_layer82">>),
       Field("signature", <<"Const", <<34595, 11207>>>>), Field("id",
       <<"Int64ul">>), Field("access_hash", <<"Int64ul">>), Field("date",
       ttimestamp_struct), Field("mime_type", tstring_struct), Field("size",
       <<"Int32ul">>), Field("thumb", <<"structures",
       "photo_size_structures", "thumb">>), Field("dc_id", <<"Int32ul">>),
       Field("_pad", <<"Int32ul">>), Field("_vector_sig", <<"Const", <<7349,
       50197>>>>), Field("document_attributes_num", <<"Int32ul">>),
       Field("document_attributes_array", <<"Array",
       "document_attributes_num", <<"structures",
       "document_attribute_structures", "document">>>>)>>),
   document_layer113_struct |->
     Struct(<<Field("sname", <<"Computed", "document_layer113">>),
       Field("signature", <<"Const", <<39842, 40129>>>>), Field("flags",
       <<"FlagsEnum_Int32ul", [has_photo_size |-> 0, mask |-> 1]>>),
       Field("id", <<"Int64ul">>), Field("access_hash", <<"Int64ul">>),
       Field("file_reference", tbytes_struct), Field("date",
       ttimestamp_struct), Field("mime_type", tstring_struct), Field("size",
       <<"Int32ul">>), Field("photo_size", <<"If", "has_photo_size",
       Struct(<<Field("_vector_sig", <<"Const", <<7349, 50197>>>>),
       Field("photo_sizes_num", <<"Int32ul">>), Field("photo_sizes_array",
       <<"Array", "photo_sizes_num", <<"structures", "photo_size_structures",
       "photo">>>>)>>)>>), Field("dc_id", <<"Int32ul">>),
       Field("_vector_sig", <<"Const", <<7349, 50197>>>>),
       Field("document_attributes_num", <<"Int32ul">>),
       Field("document_attributes_array", <<"Array",
       "document_attributes_num", <<"structures",
       "document_attribute_structures", "document">>>>)>>),
   document_old_struct |->
     Struct(<<Field("sname", <<"Computed", "document_old">>),
       Field("signature", <<"Const", <<40700, 25382>>>>), Field("id",
       <<"Int64ul">>), Field("access_hash", <<"Int64ul">>), Field("user_id",
       <<"Int32ul">>), Field("date", ttimestamp_struct), Field("file_name",
       tstring_struct), Field("mime_type", tstring_struct), Field("size",
       <<"Int32ul">>), Field("thumb", <<"structures",
       "photo_size_structures", "thumb">>), Field("dc_id", <<"Int32ul">>)>>),
   document_layer53_struct |->
     Struct(<<Field("sname", <<"Computed", "document_layer53">>),
       Field("signature", <<"Const", <<63907, 40783>>>>), Field("id",
       <<"Int64ul">>), Field("access_hash", <<"Int64ul">>), Field("date",
       ttimestamp_struct), Field("mime_type", tstring_struct), Field("size",
       <<"Int32ul">>), Field("thumb", <<"structures",
       "photo_size_structures", "thumb">>), Field("dc_id", <<"Int32ul">>),
       Field("_vector_sig", <<"Const", <<7349, 50197>>>>),
       Field("document_attributes_num", <<"Int32ul">>),
       Field("document_attributes_array", <<"Array",
       "document_attributes_num", <<"structures",
       "document_attribute_structures", "document">>>>)>>),
   document_encrypted_old_struct |->
     Struct(<<Field("sname", <<"Computed", "document_encrypted_old">>),
       Field("signature", <<"Const", <<21845, 21846>>>>), Field("id",
       <<"Int64ul">>), Field("access_hash", <<"Int64ul">>), Field("user_id",
       <<"Int32ul">>), Field("date", ttimestamp_struct), Field("file_name",
       tstring_struct), Field("mime_type", tstring_struct), Field("size",
       <<"Int32ul">>), Field("thumb", <<"structures",
       "photo_size_structures", "thumb">>), Field("dc_id", <<"Int32ul">>),
       Field("key", tbytes_struct), Field("iv", tbytes_struct)>>),
   document_encrypted_struct |->
     Struct(<<Field("sname", <<"Computed", "document_encrypted">>),
       Field("signature", <<"Const", <<21845, 21848>>>>), Field("id",
       <<"Int64ul">>), Field("access_hash", <<"Int64ul">>), Field("date",
       ttimestamp_struct), Field("mime_type", tstring_struct), Field("size",
       <<"Int32ul">>), Field("thumb", <<"structures",
       "photo_size_structures", "thumb">>), Field("dc_id", <<"Int32ul">>),
       Field("_vector_sig", <<"Const", <<7349, 50197>>>>),
       Field("document_attributes_num", <<"Int32ul">>),
       Field("document_attributes_array", <<"Array",
       "document_attributes_num", <<"structures",
       "document_attribute_structures", "document">>>>), Field("key",
       tbytes_struct), Field("iv", tbytes_struct)>>),
   document_layer92_struct |->
     Struct(<<Field("sname", <<"Computed", "document_layer92">>),
       Field("signature", <<"Const", <<22867, 20044>>>>), Field("id",
       <<"Int64ul">>), Field("access_hash", <<"Int64ul">>),
       Field("file_reference", tbytes_struct), Field("date",
       ttimestamp_struct), Field("mime_type", tstring_struct), Field("size",
       <<"Int32ul">>), Field("thumb", <<"structures",
       "photo_size_structures", "thumb">>), Field("dc_id", <<"Int32ul">>),
       Field("_vector_sig", <<"Const", <<7349, 50197>>>>),
       Field("document_attributes_num", <<"Int32ul">>),
       Field("document_attributes_array", <<"Array",
       "document_attributes_num", <<"structures",
       "document_attribute_structures", "document">>>>)>>),
   document_struct |->
     Struct(<<Field("sname", <<"Computed", "document">>), Field("signature",
       <<"Const", <<7815, 13355>>>>), Field("flags", <<"FlagsEnum_Int32ul",
       [has_photo_size |-> 0, has_video_size |-> 1]>>), Field("id",
       <<"Int64ul">>), Field("access_hash", <<"Int64ul">>),
       Field("file_reference", tbytes_struct), Field("date",
       ttimestamp_struct), Field("mime_type", tstring_struct), Field("size",
       <<"Int32ul">>), Field("photo_size", <<"If", "has_photo_size",
       Struct(<<Field("_vector_sig", <<"Const", <<7349, 50197>>>>),
       Field("photo_sizes_num", <<"Int32ul">>), Field("photo_sizes_array",
       <<"Array", "photo_sizes_num", <<"structures", "photo_size_structures",
       "photo_size">>>>)>>)>>), Field("video_size", <<"If", "has_video_size",
       Struct(<<Field("_vector_sig", <<"Const", <<7349, 50197>>>>),
       Field("video_sizes_num", <<"Int32ul">>), Field("video_sizes_array",
       <<"Array", "video_sizes_num", <<"structures", "video_size_structures",
       "video_size">>>>)>>)>>), Field("dc_id", <<"Int32ul">>),
       Field("_vector_sig", <<"Const", <<7349, 50197>>>>),
       Field("document_attributes_num", <<"Int32ul">>),
       Field("document_attributes_array", <<"Array",
       "document_attributes_num", <<"structures",
       "document_attribute_structures", "document">>>>)>>),
   encrypted_chat_empty_struct |->
     Struct(<<Field("sname", <<"Computed", "encrypted_chat_empty">>),
       Field("signature", <<"Const", <<43902, 49312>>>>), Field("id",
       <<"Int32ul">>)>>),
   encrypted_chat_requested_struct |-> encrypted_chat_requested_struct,
   encrypted_chat_requested_layer115_struct |->
     Struct(<<Field("sname", <<"Computed",
       "encrypted_chat_requested_layer115">>), Field("signature", <<"Const",
       <<51320, 21118>>>>), Field("id", <<"Int32ul">>), Field("access_hash",
       <<"Int64ul">>), Field("date", ttimestamp_struct), Field("admin_id",
       <<"Int32ul">>), Field("participant_id", <<"Int32ul">>), Field("g_a",
       tbytes_struct)>>),
   encrypted_chat_struct |->
     Struct(<<Field("sname", <<"Computed", "encrypted_chat">>),
       Field("signature", <<"Const", <<64086, 52790>>>>), Field("id",
       <<"Int32ul">>), Field("access_hash", <<"Int64ul">>), Field("date",
       ttimestamp_struct), Field("admin_id", <<"Int32ul">>),
       Field("participant_id", <<"Int32ul">>), Field("g_a_or_b",
       tbytes_struct), Field("key_fingerprint", <<"Int64ul">>)>>),
   encrypted_chat_requested_old_struct |->
     Struct(<<Field("sname", <<"Computed", "encrypted_chat_requested_old">>),
       Field("signature", <<"Const", <<64937, 42935>>>>), Field("id",
       <<"Int32ul">>), Field("access_hash", <<"Int64ul">>), Field("date",
       ttimestamp_struct), Field("admin_id", <<"Int32ul">>),
       Field("participant_id", <<"Int32ul">>), Field("g_a", tbytes_struct),
       Field("nonce", tbytes_struct)>>),
   encrypted_chat_discarded_struct |->
     Struct(<<Field("sname", <<"Computed", "encrypted_chat_discarded">>),
       Field("signature", <<"Const", <<5078, 56615>>>>), Field("id",
       <<"Int32ul">>)>>),
   encrypted_chat_waiting_struct |->
     Struct(<<Field("sname", <<"Computed", "encrypted_chat_waiting">>),
       Field("signature", <<"Const", <<15351, 988>>>>), Field("id",
       <<"Int32ul">>), Field("access_hash", <<"Int64ul">>), Field("date",
       ttimestamp_struct), Field("admin_id", <<"Int32ul">>),
       Field("participant_id", <<"Int32ul">>)>>),
   encrypted_chat_old_struct |->
     Struct(<<Field("sname", <<"Computed", "encrypted_chat_old">>),
       Field("signature", <<"Const", <<26113, 53583>>>>), Field("id",
       <<"Int32ul">>), Field("access_hash", <<"Int64ul">>), Field("date",
       ttimestamp_struct), Field("admin_id", <<"Int32ul">>),
       Field("participant_id", <<"Int32ul">>), Field("g_a_or_b",
       tbytes_struct), Field("nonce", tbytes_struct),
       Field("key_fingerprint", <<"Int64ul">>)>>),
   file_location_struct |->
     Struct(<<Field("sname", <<"Computed", "file_location">>),
       Field("signature", <<"Const", <<21462, 36982>>>>), Field("dc_id",
       <<"Int32ul">>), Field("volume_id", <<"Int64ul">>), Field("local_id",
       <<"Int32ul">>), Field("secret", <<"Int64ul">>)>>),
   file_encrypted_location_struct |->
     Struct(<<Field("sname", <<"Computed", "file_encrypted_location">>),
       Field("signature", <<"Const", <<21845, 21844>>>>), Field("dc_id",
       <<"Int32ul">>), Field("volume_id", <<"Int64ul">>), Field("local_id",
       <<"Int32ul">>), Field("secret", <<"Int64ul">>), Field("key",
       tbytes_struct), Field("iv", tbytes_struct)>>),
   file_location_unavailable_struct |->
     Struct(<<Field("sname", <<"Computed", "file_location_unavailable">>),
       Field("signature", <<"Const", <<31833, 27462>>>>), Field("volume_id",
       <<"Int64ul">>), Field("local_id", <<"Int32ul">>), Field("secret",
       <<"Int64ul">>)>>),
   file_location_layer82_struct |->
     Struct(<<Field("sname", <<"Computed", "file_location">>),
       Field("signature", <<"Const", <<21462, 36982>>>>), Field("dc_id",
       <<"Int32ul">>), Field("volume_id", <<"Int64ul">>), Field("local_id",
       <<"Int32ul">>), Field("secret", <<"Int64ul">>)>>),
   file_location_layer97_struct |->
     Struct(<<Field("sname", <<"Computed", "file_location_layer97">>),
       Field("signature", <<"Const", <<2333, 4587>>>>), Field("dc_id",
       <<"Int32ul">>), Field("volume_id", <<"Int64ul">>), Field("local_id",
       <<"Int32ul">>), Field("secret", <<"Int64ul">>),
       Field("file_reference", tbytes_struct)>>),
   file_location_to_be_deprecated_struct |->
     Struct(<<Field("sname", <<"Computed",
       "file_location_to_be_deprecated">>), Field("signature", <<"Const",
       <<48255, 50893>>>>), Field("volume_id", <<"Int64ul">>),
       Field("local_id", <<"Int32ul">>)>>),
   game_struct |->
     Struct(<<Field("sname", <<"Computed", "game">>), Field("signature",
       <<"Const", <<48633, 25915>>>>), Field("flags", <<"FlagsEnum_Int32ul",
       [has_document |-> 0]>>), Field("id", <<"Int64ul">>),
       Field("access_hash", <<"Int64ul">>), Field("short_name",
       tstring_struct), Field("title", tstring_struct), Field("description",
       tstring_struct), Field("photo", <<"structures", "photo_structures",
       "photo">>), Field("document", <<"If", "has_document", <<"structures",
       "document_structures", "document">>>>)>>),
   geo_point_empty_struct |->
     Struct(<<Field("sname", <<"Computed", "geo_point_empty">>),
       Field("signature", <<"Const", <<4375, 56671>>>>)>>),
   geo_point_struct |->
     Struct(<<Field("sname", <<"Computed", "geo_point">>), Field("signature",
       <<"Const", <<662, 61700>>>>), Field("long", <<"Float64b">>),
       Field("lat", <<"Float64b">>), Field("access_hash", <<"Int64ul">>)>>),
   geo_point_layer81_struct |->
     Struct(<<Field("sname", <<"Computed", "geo_point_layer81">>),
       Field("signature", <<"Const", <<8265, 55052>>>>), Field("long",
       <<"Float64b">>), Field("lat", <<"Float64b">>)>>),
   input_channel_struct |->
     Struct(<<Field("sname", <<"Computed", "input_channel">>),
       Field("signature", <<"Const", <<45035, 28974>>>>), Field("channel_id",
       <<"Int32ul">>), Field("access_hash", <<"Int64ul">>)>>),
   input_channel_empty_struct |->
     Struct(<<Field("sname", <<"Computed", "input_channel_empty">>),
       Field("signature", <<"Const", <<61068, 7814>>>>)>>),
   input_group_call_struct |->
     Struct(<<Field("sname", <<"Computed", "input_group_call">>),
       Field("signature", <<"Const", <<55466, 33807>>>>), Field("id",
       <<"Int64ul">>), Field("access_hash", <<"Int64ul">>)>>),
   input_message_entity_mention_name_struct |->
     Struct(<<Field("sname", <<"Computed",
       "input_message_entity_mention_name">>), Field("signature", <<"Const",
       <<8334, 26825>>>>), Field("offset", <<"Int32ul">>), Field("length",
       <<"Int32ul">>), Field("user_id", <<"self", "input_user_struct">>)>>),
   input_sticker_set_animated_emoji_struct |-> input_sticker_set_animated_emoji_struct,
   input_sticker_set_dice_struct |->
     Struct(<<Field("sname", <<"Computed", "input_sticker_set_dice">>),
       Field("signature", <<"Const", <<59007, 21006>>>>), Field("emoticon",
       tstring_struct)>>),
   input_sticker_set_empty_struct |->
     Struct(<<Field("sname", <<"Computed", "input_sticker_set_empty">>),
       Field("signature", <<"Const", <<65462, 11157>>>>)>>),
   input_sticker_set_id_struct |->
     Struct(<<Field("sname", <<"Computed", "input_sticker_set_id">>),
       Field("signature", <<"Const", <<40423, 41577>>>>), Field("id",
       <<"Int64ul">>), Field("access_hash", <<"Int64ul">>)>>),
   input_sticker_set_short_name_struct |->
     Struct(<<Field("sname", <<"Computed", "input_sticker_set_short_name">>),
       Field("signature", <<"Const", <<34332, 51360>>>>), Field("short_name",
       tstring_struct)>>),
   input_user_empty_struct |->
     Struct(<<Field("sname", <<"Computed", "input_user_empty">>),
       Field("signature", <<"Const", <<47496, 34511>>>>)>>),
   input_user_struct |->
     Struct(<<Field("sname", <<"Computed", "input_user">>),
       Field("signature", <<"Const", <<55337, 10262>>>>), Field("user_id",
       <<"Int32ul">>), Field("access_hash", <<"Int64ul">>)>>),
   keyboard_button_struct |->
     Struct(<<Field("sname", <<"Computed", "keyboard_button">>),
       Field("signature", <<"Const", <<41722, 18560>>>>), Field("text",
       tstring_struct)>>),
   keyboard_button_buy_struct |->
     Struct(<<Field("sname", <<"Computed", "keyboard_button_buy">>),
       Field("signature", <<"Const", <<45017, 16315>>>>), Field("text",
       tstring_struct)>>),
   keyboard_button_request_phone_struct |->
     Struct(<<Field("sname", <<"Computed",
       "keyboard_button_request_phone">>), Field("signature", <<"Const",
       <<45418, 27689>>>>), Field("text", tstring_struct)>>),
   keyboard_button_request_poll_struct |->
     Struct(<<Field("sname", <<"Computed", "keyboard_button_request_poll">>),
       Field("signature", <<"Const", <<48071, 20829>>>>), Field("flags",
       <<"FlagsEnum_Int32ul", [has_quiz |-> 0]>>), Field("quiz", <<"If",
       "has_quiz", tbool_struct>>), Field("text", tstring_struct)>>),
   keyboard_button_request_geo_location_struct |->
     Struct(<<Field("sname", <<"Computed",
       "keyboard_button_request_geo_location">>), Field("signature",
       <<"Const", <<64633, 27455>>>>), Field("text", tstring_struct)>>),
   keyboard_button_switch_inline_struct |->
     Struct(<<Field("sname", <<"Computed",
       "keyboard_button_switch_inline">>), Field("signature", <<"Const",
       <<1384, 42824>>>>), Field("flags", <<"FlagsEnum_Int32ul",
       [same_peer |-> 0]>>), Field("text", tstring_struct), Field("query",
       tstring_struct)>>),
   keyboard_button_url_struct |->
     Struct(<<Field("sname", <<"Computed", "keyboard_button_url">>),
       Field("signature", <<"Const", <<9610, 65285>>>>), Field("text",
       tstring_struct), Field("url", tstring_struct)>>),
   keyboard_button_url_auth_struct |->
     Struct(<<Field("sname", <<"Computed", "keyboard_button_url_auth">>),
       Field("signature", <<"Const", <<4279, 36137>>>>), Field("flags",
       <<"FlagsEnum_Int32ul", [has_fwd_text |-> 0]>>), Field("text",
       tstring_struct), Field("fwd_text", <<"If", "has_fwd_text",
       tstring_struct>>), Field("url", tstring_struct), Field("button_id",
       <<"Int32ul">>)>>),
   keyboard_button_game_struct |->
     Struct(<<Field("sname", <<"Computed", "keyboard_button_game">>),
       Field("signature", <<"Const", <<20724, 7375>>>>), Field("text",
       tstring_struct)>>),
   keyboard_button_callback_struct |->
     Struct(<<Field("sname", <<"Computed", "keyboard_button_callback">>),
       Field("signature", <<"Const", <<26682, 24134>>>>), Field("text",
       tstring_struct), Field("data", tbytes_struct)>>),
   keyboard_button_row_struct |->
     Struct(<<Field("sname", <<"Computed", "keyboard_button_row">>),
       Field("signature", <<"Const", <<30560, 35715>>>>),
       Field("_vector_sig", <<"Const", <<7349, 50197>>>>),
       Field("keyboard_buttons_row_num", <<"Int32ul">>),
       Field("keyboard_buttons_row_array", <<"Array",
       "keyboard_buttons_row_num", <<"structures",
       "keyboard_button_structures", "keyboard_button">>>>)>>),
   mask_coords_struct |->
     Struct(<<Field("sname", <<"Computed", "mask_coords">>),
       Field("signature", <<"Const", <<44758, 56242>>>>), Field("n",
       <<"Int32ul">>), Field("x", <<"Float64b">>), Field("y",
       <<"Float64b">>), Field("zoom", <<"Float64b">>)>>),
   message_action_chat_create_struct |->
     Struct(<<Field("sname", <<"Computed", "message_action_chat_create">>),
       Field("signature", <<"Const", <<42595, 35738>>>>), Field("title",
       tstring_struct), Field("vector_sig", <<"Const", <<7349, 50197>>>>),
       Field("users_num", <<"Int32ul">>), Field("users", <<"Array",
       "users_num", <<"Int32ul">>>>)>>),
   message_action_chat_delete_photo_struct |->
     Struct(<<Field("sname", <<"Computed",
       "message_action_chat_delete_photo">>), Field("signature", <<"Const",
       <<38371, 64495>>>>)>>),
   message_action_chat_delete_user_struct |->
     Struct(<<Field("sname", <<"Computed",
       "message_action_chat_delete_user">>), Field("signature", <<"Const",
       <<45742, 39692>>>>), Field("user_id", <<"Int32ul">>)>>),
   message_action_chat_edit_title_struct |->
     Struct(<<Field("sname", <<"Computed",
       "message_action_chat_edit_title">>), Field("signature", <<"Const",
       <<46497, 52826>>>>), Field("title", tstring_struct)>>),
   message_action_empty_struct |->
     Struct(<<Field("sname", <<"Computed", "message_action_empty">>),
       Field("signature", <<"Const", <<46766, 63408>>>>)>>),
   message_action_ttl_change_struct |->
     Struct(<<Field("sname", <<"Computed", "message_action_ttl_change">>),
       Field("signature", <<"Const", <<21845, 21842>>>>),
       Field("ttl_seconds", <<"Int32ul">>)>>),
   message_action_user_joined_struct |->
     Struct(<<Field("sname", <<"Computed", "message_action_user_joined">>),
       Field("signature", <<"Const", <<21845, 21840>>>>)>>),
   message_action_login_unknown_location_struct |->
     Struct(<<Field("sname", <<"Computed",
       "message_action_login_unknown_location">>), Field("signature",
       <<"Const", <<21845, 22005>>>>), Field("title", tstring_struct),
       Field("address", tstring_struct)>>),
   message_action_chat_add_user_old_struct |->
     Struct(<<Field("sname", <<"Computed",
       "message_action_chat_add_user_old">>), Field("signature", <<"Const",
       <<24124, 64587>>>>), Field("user_id", <<"Int32ul">>)>>),
   message_action_bot_allowed_struct |->
     Struct(<<Field("sname", <<"Computed", "message_action_bot_allowed">>),
       Field("signature", <<"Const", <<44009, 45054>>>>), Field("domain",
       tstring_struct)>>),
   message_action_channel_create_struct |->
     Struct(<<Field("sname", <<"Computed",
       "message_action_channel_create">>), Field("signature", <<"Const",
       <<38354, 44178>>>>), Field("title", tstring_struct)>>),
   message_action_channel_migrate_from_struct |->
     Struct(<<Field("sname", <<"Computed",
       "message_action_channel_migrate_from">>), Field("signature",
       <<"Const", <<45141, 60142>>>>), Field("title", tstring_struct),
       Field("chat_id", <<"Int32ul">>)>>),
   message_action_chat_edit_photo_struct |->
     Struct(<<Field("sname", <<"Computed",
       "message_action_chat_edit_photo">>), Field("signature", <<"Const",
       <<32715, 5032>>>>), Field("photo", <<"structures", "photo_structures",
       "photo">>)>>),
   message_action_history_clear_struct |->
     Struct(<<Field("sname", <<"Computed", "message_action_history_clear">>),
       Field("signature", <<"Const", <<40890, 46596>>>>)>>),
   message_action_game_score_struct |->
     Struct(<<Field("sname", <<"Computed", "message_action_game_score">>),
       Field("signature", <<"Const", <<37543, 10358>>>>), Field("game_id",
       <<"Int64ul">>), Field("score", <<"Int32ul">>)>>),
   message_action_pin_message_struct |->
     Struct(<<Field("sname", <<"Computed", "message_action_pin_message">>),
       Field("signature", <<"Const", <<38077, 14573>>>>)>>),
   message_action_phone_call_struct |->
     Struct(<<Field("sname", <<"Computed", "message_action_phone_call">>),
       Field("signature", <<"Const", <<32993, 6783>>>>), Field("flags",
       <<"FlagsEnum_Int32ul", [is_discarded |-> 0, has_duration |-> 1,
       is_video |-> 2]>>), Field("call_id", <<"Int64ul">>),
       Field("discard_reason", <<"If", "is_discarded", <<"structures",
       "phone_call_discard_reason_structures", "discard_reason">>>>),
       Field("duration", <<"If", "has_duration", <<"Int32ul">>>>)>>),
   message_action_contact_sign_up_struct |->
     Struct(<<Field("sname", <<"Computed",
       "message_action_contact_sign_up">>), Field("signature", <<"Const",
       <<62450, 24438>>>>)>>),
   message_action_secure_values_sent_struct |->
     Struct(<<Field("sname", <<"Computed",
       "message_action_secure_values_sent">>), Field("signature", <<"Const",
       <<55644, 24916>>>>), Field("_vector_sig", <<"Const", <<7349,
       50197>>>>), Field("secure_values_num", <<"Int32ul">>),
       Field("secure_value_array", <<"Array", "secure_values_num",
       <<"structures", "secure_value_type_structures", "secure_value">>>>)>>),
   message_action_chat_joined_by_link_struct |->
     Struct(<<Field("sname", <<"Computed",
       "message_action_chat_joined_by_link">>), Field("signature", <<"Const",
       <<63644, 62952>>>>), Field("inviter_id", <<"Int32ul">>)>>),
   message_action_custom_action_struct |->
     Struct(<<Field("sname", <<"Computed", "message_action_custom_action">>),
       Field("signature", <<"Const", <<64230, 40790>>>>), Field("message",
       tstring_struct)>>),
   message_action_payment_sent_struct |->
     Struct(<<Field("sname", <<"Computed",
       "message_action_payment_sent_struct">>), Field("signature", <<"Const",
       <<16489, 40144>>>>), Field("currency", tstring_struct),
       Field("total_amount", <<"Int64ul">>)>>),
   message_action_screenshot_taken_struct |->
     Struct(<<Field("sname", <<"Computed",
       "message_action_screenshot_taken">>), Field("signature", <<"Const",
       <<18322, 37531>>>>)>>),
   message_action_chat_add_user_struct |->
     Struct(<<Field("sname", <<"Computed", "message_action_chat_add_user">>),
       Field("signature", <<"Const", <<18570, 29495>>>>),
       Field("_vector_sig", <<"Const", <<7349, 50197>>>>),
       Field("user_array_num", <<"Int32ul">>), Field("user_array", <<"Array",
       "user_array_num", <<"Int32ul">>>>)>>),
   message_action_chat_migrate_to_struct |->
     Struct(<<Field("sname", <<"Computed",
       "message_action_chat_migrate_to">>), Field("signature", <<"Const",
       <<20925, 45089>>>>), Field("channel_id", <<"Int32ul">>)>>),
   message_action_user_updated_photo_struct |->
     Struct(<<Field("sname", <<"Computed",
       "message_action_user_updated_photo">>), Field("signature", <<"Const",
       <<21845, 21841>>>>), Field("new_user_photo", <<"structures",
       "user_profile_photo_structures", "new_user_photo">>)>>),
   message_action_created_broadcast_list_struct |->
     Struct(<<Field("sname", <<"Computed",
       "message_action_created_broadcast_list">>), Field("signature",
       <<"Const", <<21845, 21847>>>>)>>),
   message_encrypted_action_struct |->
     Struct(<<Field("sname", <<"Computed", "message_encrypted_action">>),
       Field("signature", <<"Const", <<21845, 22007>>>>),
       Field("encrypted_action", <<"structures",
       "decrypted_message_action_structures", "encrypted_action">>)>>),
   message_action_group_call_struct |->
     Struct(<<Field("sname", <<"Computed", "message_action_group_call">>),
       Field("signature", <<"Const", <<31245, 32578>>>>), Field("flags",
       <<"FlagsEnum_Int32ul", [has_duration |-> 0]>>), Field("call",
       <<"self", "input_group_call_struct">>), Field("duration", <<"If",
       "has_duration", <<"Int32ul">>>>)>>),
   message_entity_italic_struct |->
     Struct(<<Field("sname", <<"Computed", "message_entity_italic">>),
       Field("signature", <<"Const", <<33391, 35680>>>>), Field("offset",
       <<"Int32ul">>), Field("length", <<"Int32ul">>)>>),
   message_entity_phone_struct |->
     Struct(<<Field("sname", <<"Computed", "message_entity_phone">>),
       Field("signature", <<"Const", <<39785, 58187>>>>), Field("offset",
       <<"Int32ul">>), Field("length", <<"Int32ul">>)>>),
   message_entity_unknown_struct |->
     Struct(<<Field("sname", <<"Computed", "message_entity_unknown">>),
       Field("signature", <<"Const", <<48018, 47765>>>>), Field("offset",
       <<"Int32ul">>), Field("length", <<"Int32ul">>)>>),
   message_entity_bank_card_struct |->
     Struct(<<Field("sname", <<"Computed", "message_entity_bank_card">>),
       Field("signature", <<"Const", <<30238, 27380>>>>), Field("offset",
       <<"Int32ul">>), Field("length", <<"Int32ul">>)>>),
   message_entity_blockquote_struct |->
     Struct(<<Field("sname", <<"Computed", "message_entity_blockquote">>),
       Field("signature", <<"Const", <<525, 62928>>>>), Field("offset",
       <<"Int32ul">>), Field("length", <<"Int32ul">>)>>),
   message_entity_bold_struct |->
     Struct(<<Field("sname", <<"Computed", "message_entity_bold">>),
       Field("signature", <<"Const", <<48481, 3017>>>>), Field("offset",
       <<"Int32ul">>), Field("length", <<"Int32ul">>)>>),
   message_entity_mention_struct |->
     Struct(<<Field("sname", <<"Computed", "message_entity_mention">>),
       Field("signature", <<"Const", <<64004, 22429>>>>), Field("offset",
       <<"Int32ul">>), Field("length", <<"Int32ul">>)>>),
   message_entity_code_struct |->
     Struct(<<Field("sname", <<"Computed", "message_entity_code">>),
       Field("signature", <<"Const", <<10402, 1393>>>>), Field("offset",
       <<"Int32ul">>), Field("length", <<"Int32ul">>)>>),
   message_entity_mention_name_struct |->
     Struct(<<Field("sname", <<"Computed", "message_entity_mention_name">>),
       Field("signature", <<"Const", <<13613, 51800>>>>), Field("offset",
       <<"Int32ul">>), Field("length", <<"Int32ul">>), Field("user_id",
       <<"Int32ul">>)>>),
   message_entity_cashtag_struct |->
     Struct(<<Field("sname", <<"Computed", "message_entity_cashtag">>),
       Field("signature", <<"Const", <<19534, 29759>>>>), Field("offset",
       <<"Int32ul">>), Field("length", <<"Int32ul">>)>>),
   message_entity_email_struct |->
     Struct(<<Field("sname", <<"Computed", "message_entity_email">>),
       Field("signature", <<"Const", <<25828, 30146>>>>), Field("offset",
       <<"Int32ul">>), Field("length", <<"Int32ul">>)>>),
   message_entity_bot_command_struct |->
     Struct(<<Field("sname", <<"Computed", "message_entity_bot_command">>),
       Field("signature", <<"Const", <<27887, 35527>>>>), Field("offset",
       <<"Int32ul">>), Field("length", <<"Int32ul">>)>>),
   message_entity_url_struct |->
     Struct(<<Field("sname", <<"Computed", "message_entity_url">>),
       Field("signature", <<"Const", <<28368, 9528>>>>), Field("offset",
       <<"Int32ul">>), Field("length", <<"Int32ul">>)>>),
   message_entity_hashtag_struct |->
     Struct(<<Field("sname", <<"Computed", "message_entity_hashtag">>),
       Field("signature", <<"Const", <<28515, 23309>>>>), Field("offset",
       <<"Int32ul">>), Field("length", <<"Int32ul">>)>>),
   message_entity_pre_struct |->
     Struct(<<Field("sname", <<"Computed", "message_entity_pre">>),
       Field("signature", <<"Const", <<29586, 19424>>>>), Field("offset",
       <<"Int32ul">>), Field("length", <<"Int32ul">>), Field("language",
       tstring_struct)>>),
   message_entity_text_url_struct |->
     Struct(<<Field("sname", <<"Computed", "message_entity_text_url">>),
       Field("signature", <<"Const", <<30374, 54055>>>>), Field("offset",
       <<"Int32ul">>), Field("length", <<"Int32ul">>), Field("url",
       tstring_struct)>>),
   message_entity_strike_struct |->
     Struct(<<Field("sname", <<"Computed", "message_entity_strike">>),
       Field("signature", <<"Const", <<48902, 37844>>>>), Field("offset",
       <<"Int32ul">>), Field("length", <<"Int32ul">>)>>),
   message_entity_underline_struct |->
     Struct(<<Field("sname", <<"Computed", "message_entity_underline">>),
       Field("signature", <<"Const", <<40014, 32395>>>>), Field("offset",
       <<"Int32ul">>), Field("length", <<"Int32ul">>)>>),
   message_empty_struct |->
     Struct(<<Field("sname", <<"Computed", "message_empty">>),
       Field("signature", <<"Const", <<33765, 56916>>>>), Field("id",
       <<"Int32ul">>), Field("_extra_signature", <<"Peek", <<"Int32ul">>>>),
       Field("to_id", <<"IfThenElse", "_extra_signature", <<"structures",
       "peer_structures", "to_id">>, <<"Terminated">>>>)>>),
   message_fwd_header_struct |->
     Struct(<<Field("sname", <<"Computed", "message_fwd_header">>),
       Field("signature", <<"Const", <<13626, 26731>>>>), Field("flags",
       <<"FlagsEnum_Int32ul", [has_from_id |-> 0, has_channel_id |-> 1,
       has_channel_post |-> 2, has_post_author |-> 3,
       has_saved_from_peer |-> 4, has_from_name |-> 5,
       has_psa_type |-> 6]>>), Field("from_id", <<"If", "has_from_id",
       <<"Int32ul">>>>), Field("from_name", <<"If", "has_from_name",
       tstring_struct>>), Field("date", ttimestamp_struct),
       Field("channel_id", <<"If", "has_channel_id", <<"Int32ul">>>>),
       Field("channel_post", <<"If", "has_channel_post", <<"Int32ul">>>>),
       Field("post_author", <<"If", "has_post_author", tstring_struct>>),
       Field("saved_from_peer", <<"If", "has_saved_from_peer",
       <<"structures", "peer_structures", "saved_from_peer">>>>),
       Field("saved_from_msg_id", <<"If", "has_saved_from_peer",
       <<"Int32ul">>>>), Field("psa_type", <<"If", "has_psa_type",
       tstring_struct>>)>>),
   message_fwd_header_layer112_struct |->
     Struct(<<Field("sname", <<"Computed", "message_fwd_header_layer112">>),
       Field("signature", <<"Const", <<60467, 33392>>>>), Field("flags",
       <<"FlagsEnum_Int32ul", [has_from_id |-> 0, has_channel_id |-> 1,
       has_channel_post |-> 2, has_post_author |-> 3,
       has_saved_from_peer |-> 4, has_from_name |-> 5]>>), Field("from_id",
       <<"If", "has_from_id", <<"Int32ul">>>>), Field("from_name", <<"If",
       "has_from_name", tstring_struct>>), Field("date", ttimestamp_struct),
       Field("channel_id", <<"If", "has_channel_id", <<"Int32ul">>>>),
       Field("channel_post", <<"If", "has_channel_post", <<"Int32ul">>>>),
       Field("post_author", <<"If", "has_post_author", tstring_struct>>),
       Field("saved_from_peer", <<"If", "has_saved_from_peer",
       <<"structures", "peer_structures", "saved_from_peer">>>>),
       Field("saved_from_msg_id", <<"If", "has_saved_from_peer",
       <<"Int32ul">>>>)>>),
   message_fwd_header_layer68_struct |->
     Struct(<<Field("sname", <<"Computed", "message_fwd_header_layer68">>),
       Field("signature", <<"Const", <<51078, 56779>>>>), Field("flags",
       <<"FlagsEnum_Int32ul", [has_from_id |-> 0, has_channel_id |-> 1,
       has_channel_post |-> 2]>>), Field("from_id", <<"If", "has_from_id",
       <<"Int32ul">>>>), Field("date", ttimestamp_struct),
       Field("channel_id", <<"If", "has_channel_id", <<"Int32ul">>>>),
       Field("channel_post", <<"If", "has_channel_post", <<"Int32ul">>>>)>>),
   message_fwd_header_layer72_struct |->
     Struct(<<Field("sname", <<"Computed", "message_fwd_header_layer72">>),
       Field("signature", <<"Const", <<64223, 62636>>>>), Field("flags",
       <<"FlagsEnum_Int32ul", [has_from_id |-> 0, has_channel_id |-> 1,
       has_channel_post |-> 2, has_post_author |-> 3]>>), Field("from_id",
       <<"If", "has_from_id", <<"Int32ul">>>>), Field("date",
       ttimestamp_struct), Field("channel_id", <<"If", "has_channel_id",
       <<"Int32ul">>>>), Field("channel_post", <<"If", "has_channel_post",
       <<"Int32ul">>>>), Field("post_author", <<"If", "has_post_author",
       tstring_struct>>)>>),
   message_fwd_header_layer96_struct |->
     Struct(<<Field("sname", <<"Computed", "message_fwd_header_layer96">>),
       Field("signature", <<"Const", <<21918, 48749>>>>), Field("flags",
       <<"FlagsEnum_Int32ul", [has_from_id |-> 0, has_channel_id |-> 1,
       has_channel_post |-> 2, has_post_author |-> 3,
       has_saved_from_peer |-> 4]>>), Field("from_id", <<"If", "has_from_id",
       <<"Int32ul">>>>), Field("date", ttimestamp_struct),
       Field("channel_id", <<"If", "has_channel_id", <<"Int32ul">>>>),
       Field("channel_post", <<"If", "has_channel_post", <<"Int32ul">>>>),
       Field("post_author", <<"If", "has_post_author", tstring_struct>>),
       Field("saved_from_peer", <<"If", "has_saved_from_peer",
       <<"structures", "peer_structures", "saved_from_peer">>>>),
       Field("saved_from_msg_id", <<"If", "has_saved_from_peer",
       <<"Int32ul">>>>)>>),
   message_reactions_struct |->
     Struct(<<Field("sname", <<"Computed", "message_reactions">>),
       Field("signature", <<"Const", <<47226, 9425>>>>), Field("flags",
       <<"FlagsEnum_Int32ul", [min |-> 0]>>), Field("_vector_sig", <<"Const",
       <<7349, 50197>>>>), Field("reaction_count_num", <<"Int32ul">>),
       Field("reaction_count_array", <<"Array", "reaction_count_num",
       <<"self", "reaction_count_struct">>>>)>>),
   message_media_empty_struct |->
     Struct(<<Field("sname", <<"Computed", "message_media_empty">>),
       Field("signature", <<"Const", <<15853, 25376>>>>)>>),
   message_media_invoice_struct |->
     Struct(<<Field("sname", <<"Computed", "message_media_invoice">>),
       Field("signature", <<"Const", <<33877, 4935>>>>), Field("flags",
       <<"FlagsEnum_Int32ul", [has_photo |-> 0,
       shipping_address_requested |-> 1, has_receipt_msg_id |-> 2,
       is_test |-> 3]>>), Field("title", tstring_struct),
       Field("description", tstring_struct), Field("photo", <<"If",
       "has_photo", <<"structures", "web_document_structures", "photo">>>>),
       Field("receipt_msg_id", <<"If", "has_receipt_msg_id",
       <<"Int32ul">>>>), Field("currency", tstring_struct),
       Field("total_amount", <<"Int64ul">>), Field("start_param",
       tstring_struct)>>),
   message_media_document_struct |->
     Struct(<<Field("sname", <<"Computed", "message_media_document">>),
       Field("signature", <<"Const", <<40112, 28887>>>>), Field("flags",
       <<"FlagsEnum_Int32ul", [has_document |-> 0, has_ttl_seconds |-> 2]>>),
       Field("document", <<"If", "has_document", <<"structures",
       "document_structures", "document">>>>), Field("ttl_seconds", <<"If",
       "has_ttl_seconds", <<"Int32ul">>>>)>>),
   message_media_unsupported_struct |->
     Struct(<<Field("sname", <<"Computed", "message_media_unsupported">>),
       Field("signature", <<"Const", <<40836, 62622>>>>)>>),
   message_media_video_old_struct |->
     Struct(<<Field("sname", <<"Computed", "message_media_video_old">>),
       Field("signature", <<"Const", <<41682, 17040>>>>),
       Field("video_unused", <<"structures", "video_structures",
       "video_unused">>)>>),
   message_media_web_page_struct |->
     Struct(<<Field("sname", <<"Computed", "message_media_web_page">>),
       Field("signature", <<"Const", <<41773, 54784>>>>), Field("webpage",
       <<"structures", "web_page_structures", "webpage">>)>>),
   message_media_photo_layer74_struct |->
     Struct(<<Field("sname", <<"Computed", "message_media_photo_layer74">>),
       Field("signature", <<"Const", <<46370, 15119>>>>), Field("flags",
       <<"FlagsEnum_Int32ul", [has_photo |-> 0, has_caption |-> 1,
       has_ttl |-> 2]>>), Field("photo", <<"If", "has_photo", <<"structures",
       "photo_structures", "photo">>>>), Field("caption_legacy", <<"If",
       "has_caption", tstring_struct>>), Field("ttl_seconds", <<"If",
       "has_ttl", <<"Int32ul">>>>)>>),
   message_media_audio_layer45_struct |->
     Struct(<<Field("sname", <<"Computed", "message_media_audio_layer45">>),
       Field("signature", <<"Const", <<50870, 33536>>>>), Field("audio",
       <<"structures", "audio_structures", "audio">>)>>),
   message_media_photo_old_struct |->
     Struct(<<Field("sname", <<"Computed", "message_media_photo_old">>),
       Field("signature", <<"Const", <<51396, 23082>>>>), Field("photo",
       <<"structures", "photo_structures", "photo">>)>>),
   message_media_contact_struct |->
     Struct(<<Field("sname", <<"Computed", "message_media_contact">>),
       Field("signature", <<"Const", <<52210, 18752>>>>),
       Field("phone_number", tstring_struct), Field("first_name",
       tstring_struct), Field("last_name", tstring_struct), Field("vcard",
       tstring_struct), Field("user_id", <<"Int32ul">>)>>),
   message_media_document_layer68_struct |->
     Struct(<<Field("sname", <<"Computed",
       "message_media_document_layer68">>), Field("signature", <<"Const",
       <<62432, 11944>>>>), Field("document", <<"structures",
       "document_structures", "document">>), Field("caption_legacy",
       tstring_struct)>>),
   message_media_game_struct |->
     Struct(<<Field("sname", <<"Computed", "message_media_game">>),
       Field("signature", <<"Const", <<64945, 36872>>>>), Field("game",
       <<"self", "game_struct">>)>>),
   message_media_unsupported_old_struct |->
     Struct(<<Field("sname", <<"Computed",
       "message_media_unsupported_old">>), Field("signature", <<"Const",
       <<10595, 10806>>>>), Field("bytes", tbytes_struct)>>),
   message_media_venue_struct |->
     Struct(<<Field("sname", <<"Computed", "message_media_venue">>),
       Field("signature", <<"Const", <<11968, 21311>>>>), Field("geo",
       <<"structures", "geo_point_structures", "geo">>), Field("title",
       tstring_struct), Field("address", tstring_struct), Field("provider",
       tstring_struct), Field("venue_id", tstring_struct),
       Field("venue_type", tstring_struct)>>),
   message_media_document_old_struct |->
     Struct(<<Field("sname", <<"Computed", "message_media_document_old">>),
       Field("signature", <<"Const", <<12250, 8708>>>>), Field("document",
       <<"structures", "document_structures", "document">>)>>),
   message_media_photo_layer68_struct |->
     Struct(<<Field("sname", <<"Computed", "message_media_photo_layer68">>),
       Field("signature", <<"Const", <<15756, 58685>>>>), Field("photo",
       <<"structures", "photo_structures", "photo">>),
       Field("caption_legacy", tstring_struct)>>),
   message_media_poll_struct |->
     Struct(<<Field("sname", <<"Computed", "message_media_poll">>),
       Field("signature", <<"Const", <<19414, 59288>>>>), Field("poll",
       <<"self", "poll_struct">>), Field("results", <<"structures",
       "poll_results_structures", "results">>)>>),
   message_media_geo_struct |->
     Struct(<<Field("sname", <<"Computed", "message_media_geo">>),
       Field("signature", <<"Const", <<22240, 54388>>>>), Field("geo",
       <<"structures", "geo_point_structures", "geo">>)>>),
   message_media_video_layer45_struct |->
     Struct(<<Field("sname", <<"Computed", "message_media_video_layer45">>),
       Field("signature", <<"Const", <<23503, 5749>>>>),
       Field("video_unused", <<"structures", "video_structures",
       "video_unused">>), Field("caption_legacy", tstring_struct)>>),
   message_media_contact_layer81_struct |->
     Struct(<<Field("sname", <<"Computed",
       "message_media_contact_layer81">>), Field("signature", <<"Const",
       <<24189, 12089>>>>), Field("phone_number", tstring_struct),
       Field("first_name", tstring_struct), Field("last_name",
       tstring_struct), Field("user_id", <<"Int32ul">>)>>),
   message_media_dice_struct |->
     Struct(<<Field("sname", <<"Computed", "message_media_dice">>),
       Field("signature", <<"Const", <<16254, 58763>>>>), Field("emoticon",
       tstring_struct)>>),
   message_media_dice_layer111_struct |->
     Struct(<<Field("sname", <<"Computed", "message_media_dice_layer111">>),
       Field("signature", <<"Const", <<25487, 58475>>>>), Field("value",
       <<"Int32ul">>)>>),
   message_media_photo_struct |->
     Struct(<<Field("sname", <<"Computed", "message_media_photo">>),
       Field("signature", <<"Const", <<26961, 20695>>>>), Field("flags",
       <<"FlagsEnum_Int32ul", [has_photo |-> 0, has_ttl |-> 2]>>),
       Field("photo", <<"If", "has_photo", <<"structures",
       "photo_structures", "photo">>>>), Field("ttl_seconds", <<"If",
       "has_ttl", <<"Int32ul">>>>)>>),
   message_media_venue_layer71_struct |->
     Struct(<<Field("sname", <<"Computed", "message_media_venue_layer71">>),
       Field("signature", <<"Const", <<30994, 46879>>>>), Field("geo",
       <<"structures", "geo_point_structures", "geo">>), Field("title",
       tstring_struct), Field("address", tstring_struct), Field("provider",
       tstring_struct), Field("venue_id", tstring_struct)>>),
   message_media_geo_live_struct |->
     Struct(<<Field("sname", <<"Computed", "message_media_geo_live">>),
       Field("signature", <<"Const", <<31804, 9737>>>>), Field("geo",
       <<"structures", "geo_point_structures", "geo">>), Field("period",
       <<"Int32ul">>)>>),
   message_media_document_layer74_struct |->
     Struct(<<Field("sname", <<"Computed",
       "message_media_document_layer74">>), Field("signature", <<"Const",
       <<31812, 5331>>>>), Field("flags", <<"FlagsEnum_Int32ul",
       [has_document |-> 0, has_caption |-> 1, has_ttl |-> 2]>>),
       Field("document", <<"If", "has_document", <<"structures",
       "document_structures", "document">>>>), Field("caption_legacy",
       <<"If", "has_caption", tstring_struct>>), Field("ttl_seconds", <<"If",
       "has_ttl", <<"Int32ul">>>>)>>),
   message_forwarded_old_struct |->
     Struct(<<Field("sname", <<"Computed", "message_forwarded_old">>),
       Field("signature", <<"Const", <<1524, 26628>>>>), Field("id",
       <<"Int32ul">>), Field("fwd_from_id", <<"Int32ul">>),
       Field("fwd_from_date", ttimestamp_struct), Field("from_id",
       <<"Int32ul">>), Field("to_id", <<"structures", "peer_structures",
       "to_id">>), Field("out", tbool_struct), Field("unread", tbool_struct),
       Field("date", ttimestamp_struct), Field("message", tstring_struct),
       Field("media", <<"structures", "message_media_structures",
       "media">>)>>),
   message_forwarded_old2_struct |->
     Struct(<<Field("sname", <<"Computed", "message_forwarded_old2">>),
       Field("signature", <<"Const", <<41831, 59158>>>>), Field("flags",
       <<"FlagsEnum_Int32ul", [unread |-> 0, out |-> 1, mentioned |-> 4,
       media_unread |-> 5]>>), Field("id", <<"Int32ul">>),
       Field("fwd_from_id", <<"Int32ul">>), Field("fwd_from_date",
       <<"Int32ul">>), Field("from_id", <<"Int32ul">>), Field("to_id",
       <<"structures", "peer_structures", "to_id">>), Field("date",
       ttimestamp_struct), Field("message", tstring_struct), Field("media",
       <<"structures", "message_media_structures", "media">>)>>),
   message_old3_struct |->
     Struct(<<Field("sname", <<"Computed", "message_old3">>),
       Field("signature", <<"Const", <<42923, 6545>>>>), Field("flags",
       <<"FlagsEnum_Int32ul", [unread |-> 0, out |-> 1, is_forwarded |-> 2,
       is_reply_to_msg_id |-> 3, mentioned |-> 4, media_unread |-> 5]>>),
       Field("id", <<"Int32ul">>), Field("from_id", <<"Int32ul">>),
       Field("to_id", <<"structures", "peer_structures", "to_id">>),
       Field("fwd_from_id", <<"If", "is_forwarded", <<"Int32ul">>>>),
       Field("fwd_from_date", <<"If", "is_forwarded", <<"Int32ul">>>>),
       Field("reply_to_msg_id", <<"If", "is_reply_to_msg_id",
       <<"Int32ul">>>>), Field("date", ttimestamp_struct), Field("message",
       tstring_struct), Field("media", <<"structures",
       "message_media_structures", "media">>)>>),
   message_service_struct |->
     Struct(<<Field("sname", <<"Computed", "message_service">>),
       Field("signature", <<"Const", <<40473, 41462>>>>), Field("flags",
       <<"FlagsEnum_Int32ul", [unread |-> 0, out |-> 1,
       is_reply_to_msg_id |-> 3, mentioned |-> 4, media_unread |-> 5,
       has_from_id |-> 8, post |-> 14, silent |-> 13,
       is_grouped_id |-> 17]>>), Field("id", <<"Int32ul">>), Field("from_id",
       <<"If", "has_from_id", <<"Int32ul">>>>), Field("to_id",
       <<"structures", "peer_structures", "to_id">>),
       Field("reply_to_msg_id", <<"If", "is_reply_to_msg_id",
       <<"Int32ul">>>>), Field("date", ttimestamp_struct), Field("action",
       <<"structures", "message_action_structures", "action">>)>>),
   message_service_old_struct |->
     Struct(<<Field("sname", <<"Computed", "message_service_old">>),
       Field("signature", <<"Const", <<40845, 24763>>>>), Field("id",
       <<"Int32ul">>), Field("from_id", <<"Int32ul">>), Field("to_id",
       <<"structures", "peer_structures", "to_id">>), Field("out",
       tbool_struct), Field("unread", tbool_struct), Field("date",
       ttimestamp_struct), Field("action", <<"structures",
       "message_action_structures", "action">>)>>),
   message_secret_struct |->
     Struct(<<Field("sname", <<"Computed", "message_secret">>),
       Field("signature", <<"Const", <<21845, 22010>>>>), Field("flags",
       <<"FlagsEnum_Int32ul", [unread |-> 0, out |-> 1,
       is_reply_to_random_id |-> 3, mentioned |-> 4, media_unread |-> 5,
       has_via_bot_name |-> 11, has_grouped_id |-> 17]>>), Field("id",
       <<"Int32ul">>), Field("ttl", <<"Int32ul">>), Field("from_id",
       <<"Int32ul">>), Field("to_id", <<"structures", "peer_structures",
       "to_id">>), Field("date", ttimestamp_struct), Field("message",
       tstring_struct), Field("media", <<"structures",
       "message_media_structures", "media">>), Field("_vector_sig",
       <<"Const", <<7349, 50197>>>>), Field("message_entity_num",
       <<"Int32ul">>), Field("message_entity_array", <<"Array",
       "message_entity_num", <<"structures", "message_entity_structures",
       "message_entity">>>>), Field("via_bot_name", <<"If",
       "has_via_bot_name", tstring_struct>>), Field("reply_to_random_id",
       <<"If", "is_reply_to_random_id", <<"Int64ul">>>>), Field("grouped_id",
       <<"If", "has_grouped_id", <<"Int64ul">>>>), Field("UNPARSED",
       <<"GreedyBytes">>)>>),
   message_layer72_struct |->
     Struct(<<Field("sname", <<"Computed", "message_layer72">>),
       Field("signature", <<"Const", <<37085, 56337>>>>), Field("flags",
       <<"FlagsEnum_Int32ul", [out |-> 1, forwarded |-> 2,
       is_reply_to_msg_id |-> 3, mentioned |-> 4, media_unread |-> 5,
       has_reply_markup |-> 6, has_entities |-> 7, has_from_id |-> 8,
       has_media |-> 9, has_views |-> 10, is_via_bot |-> 11, silent |-> 13,
       post |-> 14, is_edited |-> 15, has_author |-> 16]>>), Field("id",
       <<"Int32ul">>), Field("from_id", <<"If", "has_from_id",
       <<"Int32ul">>>>), Field("to_id_type", <<"FlagsEnum_masks",
       [channel |-> {1, 4, 5, 8, 10, 13, 14, 15, 16, 18, 19, 20, 22, 23, 24,
       26, 27, 28, 29, 31}, chat |-> {0, 1, 3, 4, 5, 7, 8, 10, 13, 14, 15,
       20, 22, 23, 25, 27, 28, 29, 31}, user |-> {0, 2, 3, 5, 6, 10, 11, 12,
       13, 15, 16, 20, 21, 23, 24, 26, 27, 28, 31}]>>), Field("to_id",
       <<"Int32ul">>), Field("fwd_from", <<"If", "forwarded", <<"structures",
       "message_fwd_header_structures", "fwd_from">>>>), Field("via_bot_id",
       <<"If", "is_via_bot", <<"Int32ul">>>>), Field("reply_to_msg_id",
       <<"If", "is_reply_to_msg_id", <<"Int32ul">>>>), Field("date",
       ttimestamp_struct), Field("message", tstring_struct), Field("media",
       <<"If", "has_media", <<"structures", "message_media_structures",
       "media">>>>), Field("_media_ttl", <<"Computed", "ignored">>),
       Field("_media_caption_legacy", <<"Computed", "ignored">>),
       Field("reply_markup", <<"If", "has_reply_markup", <<"structures",
       "reply_markup_structures", "reply_markup">>>>), Field("entities",
       <<"If", "has_entities", Struct(<<Field("_vector_sig", <<"Const",
       <<7349, 50197>>>>), Field("message_entity_num", <<"Int32ul">>),
       Field("message_entity_array", <<"Array", "message_entity_num",
       <<"structures", "message_entity_structures",
       "message_entity">>>>)>>)>>), Field("views", <<"If", "has_views",
       <<"Int32ul">>>>), Field("edit_timestamp", <<"If", "is_edited",
       <<"Int32ul">>>>), Field("post_author", <<"If", "has_author",
       <<"Int32ul">>>>)>>),
   message_old4_struct |->
     Struct(<<Field("sname", <<"Computed", "message_old4">>),
       Field("signature", <<"Const", <<49926, 805>>>>), Field("flags",
       <<"FlagsEnum_Int32ul", [unread |-> 0, out |-> 1, forwarded |-> 2,
       is_reply_to_msg_id |-> 3, mentioned |-> 4, media_unread |-> 5,
       has_reply_markup |-> 6, has_entities |-> 7]>>), Field("id",
       <<"Int32ul">>), Field("from_id", <<"Int32ul">>), Field("to_id",
       <<"structures", "peer_structures", "to_id">>), Field("fwd_from_id",
       <<"If", "forwarded", <<"Int32ul">>>>), Field("fwd_from_timestamp",
       <<"If", "forwarded", ttimestamp_struct>>), Field("reply_to_msg_id",
       <<"If", "is_reply_to_msg_id", <<"Int32ul">>>>), Field("date",
       ttimestamp_struct), Field("message", tstring_struct), Field("media",
       <<"structures", "message_media_structures", "media">>),
       Field("_media_caption_legacy", <<"Computed", "ignored">>),
       Field("reply_markup", <<"If", "has_reply_markup", <<"structures",
       "reply_markup_structures", "reply_markup">>>>), Field("entities",
       <<"If", "has_entities", Struct(<<Field("_vector_sig", <<"Const",
       <<7349, 50197>>>>), Field("message_entity_num", <<"Int32ul">>),
       Field("message_entity_array", <<"Array", "message_entity_num",
       <<"structures", "message_entity_structures",
       "message_entity">>>>)>>)>>)>>),
   message_old5_struct |->
     Struct(<<Field("sname", <<"Computed", "message_old5">>),
       Field("signature", <<"Const", <<61560, 5320>>>>), Field("flags",
       <<"FlagsEnum_Int32ul", [unread |-> 0, out |-> 1, forwarded |-> 2,
       is_reply_to_msg_id |-> 3, mentioned |-> 4, media_unread |-> 5,
       has_reply_markup |-> 6, has_entities |-> 7]>>), Field("id",
       <<"Int32ul">>), Field("from_id", <<"Int32ul">>), Field("to_id",
       <<"structures", "peer_structures", "to_id">>), Field("fwd_from_id",
       <<"If", "forwarded", <<"Int32ul">>>>), Field("fwd_from_timestamp",
       <<"If", "forwarded", ttimestamp_struct>>), Field("reply_to_msg_id",
       <<"If", "is_reply_to_msg_id", <<"Int32ul">>>>), Field("date",
       ttimestamp_struct), Field("message", tstring_struct), Field("media",
       <<"If", "has_media", <<"structures", "message_media_structures",
       "media">>>>), Field("_media_ttl", <<"Computed", "ignored">>),
       Field("_media_caption_legacy", <<"Computed", "ignored">>),
       Field("reply_markup", <<"If", "has_reply_markup", <<"structures",
       "reply_markup_structures", "reply_markup">>>>), Field("entities",
       <<"If", "has_entities", Struct(<<Field("_vector_sig", <<"Const",
       <<7349, 50197>>>>), Field("message_entity_num", <<"Int32ul">>),
       Field("message_entity_array", <<"Array", "message_entity_num",
       <<"structures", "message_entity_structures",
       "message_entity">>>>)>>)>>), Field("views", <<"If", "has_views",
       <<"Int32ul">>>>), Field("edit_timestamp", <<"If", "is_edited",
       <<"Int32ul">>>>)>>),
   message_layer104_struct |->
     Struct(<<Field("sname", <<"Computed", "message_layer104">>),
       Field("signature", <<"Const", <<17657, 46141>>>>), Field("flags",
       <<"FlagsEnum_Int32ul", [out |-> 1, forwarded |-> 2,
       is_reply_to_msg_id |-> 3, mentioned |-> 4, media_unread |-> 5,
       has_reply_markup |-> 6, has_entities |-> 7, has_from_id |-> 8,
       has_media |-> 9, has_views |-> 10, is_via_bot |-> 11, silent |-> 13,
       post |-> 14, is_edited |-> 15, has_author |-> 16,
       is_grouped_id |-> 17]>>), Field("id", <<"Int32ul">>), Field("from_id",
       <<"If", "has_from_id", <<"Int32ul">>>>), Field("to_id",
       <<"structures", "peer_structures", "to_id">>), Field("fwd_from",
       <<"If", "forwarded", <<"structures", "message_fwd_header_structures",
       "fwd_from">>>>), Field("via_bot_id", <<"If", "is_via_bot",
       <<"Int32ul">>>>), Field("reply_to_msg_id", <<"If",
       "is_reply_to_msg_id", <<"Int32ul">>>>), Field("date",
       ttimestamp_struct), Field("message", tstring_struct), Field("media",
       <<"If", "has_media", <<"structures", "message_media_structures",
       "media">>>>), Field("_media_ttl", <<"Computed", "ignored">>),
       Field("_media_caption_legacy", <<"Computed", "ignored">>),
       Field("reply_markup", <<"If", "has_reply_markup", <<"structures",
       "reply_markup_structures", "reply_markup">>>>), Field("entities",
       <<"If", "has_entities", Struct(<<Field("_vector_sig", <<"Const",
       <<7349, 50197>>>>), Field("message_entity_num", <<"Int32ul">>),
       Field("message_entity_array", <<"Array", "message_entity_num",
       <<"structures", "message_entity_structures",
       "message_entity">>>>)>>)>>), Field("views", <<"If", "has_views",
       <<"Int32ul">>>>), Field("edit_timestamp", <<"If", "is_edited",
       <<"Int32ul">>>>), Field("post_author", <<"If", "has_author",
       tstring_struct>>), Field("grouped_id", <<"If", "is_grouped_id",
       <<"Int64ul">>>>), Field("UNPARSED", <<"GreedyBytes">>)>>),
   message_layer104_2_struct |->
     Struct(<<Field("sname", <<"Computed", "message_layer104_2">>),
       Field("signature", <<"Const", <<7323, 4135>>>>), Field("flags",
       <<"FlagsEnum_Int32ul", [out |-> 1, forwarded |-> 2,
       reply_to_msg_id |-> 3, mentioned |-> 4, media_unread |-> 5,
       reply_markup |-> 6, entities |-> 7, media |-> 9, views |-> 10,
       via_bot |-> 11, silent |-> 13, post |-> 14, edited |-> 15,
       author |-> 16, grouped_id |-> 17, from_scheduled |-> 18,
       legacy |-> 19, reactions |-> 20, edit_hide |-> 21,
       restricted |-> 22]>>), Field("id", <<"Int32ul">>), Field("from_id",
       <<"If", "from_id", <<"Int32ul">>>>), Field("to_id", <<"structures",
       "peer_structures", "to_id">>), Field("fwd_from", <<"If", "forwarded",
       <<"structures", "message_fwd_header_structures", "fwd_from">>>>),
       Field("via_bot_id", <<"If", "via_bot", <<"Int32ul">>>>),
       Field("reply_to_msg_id", <<"If", "reply_to_msg_id", <<"Int32ul">>>>),
       Field("date", ttimestamp_struct), Field("message", tstring_struct),
       Field("media", <<"If", "media", <<"structures",
       "message_media_structures", "media">>>>), Field("_media_ttl",
       <<"Computed", "ignored">>), Field("_media_caption_legacy",
       <<"Computed", "ignored">>), Field("reply_markup", <<"If",
       "reply_markup", <<"structures", "reply_markup_structures",
       "reply_markup">>>>), Field("entities", <<"If", "entities",
       Struct(<<Field("_vector_sig", <<"Const", <<7349, 50197>>>>),
       Field("message_entity_num", <<"Int32ul">>),
       Field("message_entity_array", <<"Array", "message_entity_num",
       <<"structures", "message_entity_structures",
       "message_entity">>>>)>>)>>), Field("views", <<"If", "views",
       <<"Int32ul">>>>), Field("edit_timestamp", <<"If", "is_edited",
       ttimestamp_struct>>), Field("post_author", <<"If", "author",
       tstring_struct>>), Field("grouped_id", <<"If", "grouped_id",
       <<"Int64ul">>>>), Field("reactions", <<"If", "reactions", <<"self",
       "message_reactions_struct">>>>), Field("restricted", <<"If",
       "restricted", tstring_struct>>), Field("UNPARSED",
       <<"GreedyBytes">>)>>),
   message_layer104_3_struct |->
     Struct(<<Field("sname", <<"Computed", "message_layer104_3">>),
       Field("signature", <<"Const", <<38793, 56004>>>>), Field("flags",
       <<"FlagsEnum_Int32ul", [out |-> 1, forwarded |-> 2,
       reply_to_msg_id |-> 3, mentioned |-> 4, media_unread |-> 5,
       reply_markup |-> 6, entities |-> 7, media |-> 9, views |-> 10,
       via_bot |-> 11, silent |-> 13, post |-> 14, edited |-> 15,
       author |-> 16, grouped_id |-> 17, from_scheduled |-> 18,
       legacy |-> 19, reactions |-> 20, edit_hide |-> 21,
       restricted |-> 22]>>), Field("id", <<"Int32ul">>), Field("from_id",
       <<"If", "from_id", <<"Int32ul">>>>), Field("to_id", <<"structures",
       "peer_structures", "to_id">>), Field("fwd_from", <<"If", "forwarded",
       <<"structures", "message_fwd_header_structures", "fwd_from">>>>),
       Field("via_bot_id", <<"If", "via_bot", <<"Int32ul">>>>),
       Field("reply_to_msg_id", <<"If", "reply_to_msg_id", <<"Int32ul">>>>),
       Field("date", ttimestamp_struct), Field("message", tstring_struct),
       Field("media", <<"If", "media", <<"structures",
       "message_media_structures", "media">>>>), Field("_media_ttl",
       <<"Computed", "ignored">>), Field("_media_caption_legacy",
       <<"Computed", "ignored">>), Field("reply_markup", <<"If",
       "reply_markup", <<"structures", "reply_markup_structures",
       "reply_markup">>>>), Field("entities", <<"If", "entities",
       Struct(<<Field("_vector_sig", <<"Const", <<7349, 50197>>>>),
       Field("message_entity_num", <<"Int32ul">>),
       Field("message_entity_array", <<"Array", "message_entity_num",
       <<"structures", "message_entity_structures",
       "message_entity">>>>)>>)>>), Field("views", <<"If", "views",
       <<"Int32ul">>>>), Field("edit_timestamp", <<"If", "is_edited",
       ttimestamp_struct>>), Field("post_author", <<"If", "author",
       tstring_struct>>), Field("grouped_id", <<"If", "grouped_id",
       <<"Int64ul">>>>), Field("reactions", <<"If", "reactions", <<"self",
       "message_reactions_struct">>>>), Field("restricted", <<"If",
       "restricted", Struct(<<Field("_vector_sig", <<"Const", <<7349,
       50197>>>>), Field("restricted_reasons_num", <<"Int32ul">>),
       Field("restricted_reasons_array", <<"Array", "restricted_reasons_num",
       <<"self", "restriction_reason_struct">>>>)>>)>>), Field("UNPARSED",
       <<"GreedyBytes">>)>>),
   message_struct |-> message_struct,
   page_caption_struct |->
     Struct(<<Field("sname", <<"Computed", "page_caption">>),
       Field("signature", <<"Const", <<28532, 30295>>>>), Field("text",
       <<"structures", "rich_text_structures", "text">>), Field("credit",
       <<"structures", "rich_text_structures", "credit">>)>>),
   page_list_ordered_item_blocks_struct |->
     Struct(<<Field("sname", <<"Computed",
       "page_list_ordered_item_blocks">>), Field("signature", <<"Const",
       <<39133, 35126>>>>), Field("_vector_sig", <<"Const", <<7349,
       50197>>>>), Field("page_block_num", <<"Int32ul">>),
       Field("page_block_array", <<"Array", "page_block_num", <<"structures",
       "page_block_structures", "page_block">>>>)>>),
   page_list_ordered_item_text_struct |->
     Struct(<<Field("sname", <<"Computed", "page_list_ordered_item_text">>),
       Field("signature", <<"Const", <<24070, 32839>>>>), Field("num",
       tstring_struct), Field("text", <<"structures", "rich_text_structures",
       "text">>)>>),
   page_block_audio_struct |->
     Struct(<<Field("sname", <<"Computed", "page_block_audio">>),
       Field("signature", <<"Const", <<32835, 25066>>>>), Field("audio_id",
       <<"Int64ul">>), Field("caption", <<"self", "page_caption_struct">>)>>),
   page_block_subtitle_struct |->
     Struct(<<Field("sname", <<"Computed", "page_block_subtitle">>),
       Field("signature", <<"Const", <<36858, 39455>>>>), Field("text",
       <<"structures", "rich_text_structures", "text">>)>>),
   page_block_ordered_list_struct |->
     Struct(<<Field("sname", <<"Computed", "page_block_ordered_list">>),
       Field("signature", <<"Const", <<39562, 57825>>>>),
       Field("_vector_sig", <<"Const", <<7349, 50197>>>>),
       Field("page_list_oitems_num", <<"Int32ul">>),
       Field("page_list_oitems", <<"Array", "page_list_oitems_num",
       <<"structures", "page_list_ordered_item_structures",
       "page_list">>>>)>>),
   page_block_map_struct |->
     Struct(<<Field("sname", <<"Computed", "page_block_map">>),
       Field("signature", <<"Const", <<42063, 16118>>>>), Field("geo",
       <<"structures", "geo_point_structures", "geo">>), Field("zoom",
       <<"Int32ul">>), Field("w", <<"Int32ul">>), Field("h", <<"Int32ul">>),
       Field("caption", <<"self", "page_caption_struct">>)>>),
   page_block_embed_struct |->
     Struct(<<Field("sname", <<"Computed", "page_block_embed">>),
       Field("signature", <<"Const", <<43121, 36293>>>>), Field("flags",
       <<"FlagsEnum_Int32ul", [full_width |-> 0, has_url |-> 1,
       has_html |-> 2, allow_scrolling |-> 3, has_poster_photo_id |-> 4,
       has_dimensions |-> 5]>>), Field("url", <<"If", "has_url",
       tstring_struct>>), Field("html", <<"If", "has_html",
       tstring_struct>>), Field("poster_photo_id", <<"If",
       "has_poster_photo_id", <<"Int64ul">>>>), Field("w", <<"If",
       "has_dimensions", <<"Int32ul">>>>), Field("h", <<"If",
       "has_dimensions", <<"Int32ul">>>>), Field("caption", <<"self",
       "page_caption_struct">>)>>),
   page_block_author_date_struct |->
     Struct(<<Field("sname", <<"Computed", "page_block_author_date">>),
       Field("signature", <<"Const", <<47791, 58848>>>>), Field("author",
       <<"structures", "rich_text_structures", "author">>),
       Field("published_timestamp", <<"Int32ul">>)>>),
   page_block_table_struct |->
     Struct(<<Field("sname", <<"Computed", "page_block_table">>),
       Field("signature", <<"Const", <<48973, 60034>>>>), Field("flags",
       <<"FlagsEnum_Int32ul", [bordered |-> 0, striped |-> 1]>>),
       Field("title", <<"structures", "rich_text_structures", "title">>),
       Field("_vector_sig", <<"Const", <<7349, 50197>>>>),
       Field("page_table_row_num", <<"Int32ul">>),
       Field("page_table_row_array", <<"Array", "page_table_row_num",
       <<"self", "page_table_row_struct">>>>)>>),
   page_block_header_struct |->
     Struct(<<Field("sname", <<"Computed", "page_block_header">>),
       Field("signature", <<"Const", <<49104, 25836>>>>), Field("text",
       <<"structures", "rich_text_structures", "text">>)>>),
   page_block_preformatted_struct |->
     Struct(<<Field("sname", <<"Computed", "page_block_preformatted">>),
       Field("signature", <<"Const", <<49264, 55614>>>>), Field("text",
       <<"structures", "rich_text_structures", "text">>), Field("language",
       tstring_struct)>>),
   page_block_embed_layer82_struct |->
     Struct(<<Field("sname", <<"Computed", "page_block_embed_layer82">>),
       Field("signature", <<"Const", <<52706, 209>>>>), Field("flags",
       <<"FlagsEnum_Int32ul", [full_width |-> 0, has_url |-> 1,
       has_html |-> 2, allow_scrolling |-> 3, has_poster_photo_id |-> 4]>>),
       Field("url", <<"If", "has_url", tstring_struct>>), Field("html",
       <<"If", "has_html", tstring_struct>>), Field("poster_photo_id",
       <<"If", "has_poster_photo_id", <<"Int64ul">>>>), Field("w",
       <<"Int32ul">>), Field("h", <<"Int32ul">>), Field("caption",
       <<"structures", "rich_text_structures", "caption">>)>>),
   page_block_anchor_struct |->
     Struct(<<Field("sname", <<"Computed", "page_block_anchor">>),
       Field("signature", <<"Const", <<52749, 14256>>>>), Field("name",
       tstring_struct)>>),
   page_block_embed_layer60_struct |->
     Struct(<<Field("sname", <<"Computed", "page_block_embed_layer60">>),
       Field("signature", <<"Const", <<55605, 55547>>>>), Field("flags",
       <<"FlagsEnum_Int32ul", [full_width |-> 0, has_url |-> 1,
       has_html |-> 2, allow_scrolling |-> 3]>>), Field("url", <<"If",
       "has_url", tstring_struct>>), Field("html", <<"If", "has_html",
       tstring_struct>>), Field("w", <<"Int32ul">>), Field("h",
       <<"Int32ul">>), Field("caption", <<"structures",
       "rich_text_structures", "caption">>)>>),
   page_block_video_layer82_struct |->
     Struct(<<Field("sname", <<"Computed", "page_block_video_layer82">>),
       Field("signature", <<"Const", <<55767, 6246>>>>), Field("flags",
       <<"FlagsEnum_Int32ul", [autoplay |-> 0, loop |-> 1]>>),
       Field("video_id", <<"Int64ul">>), Field("caption", <<"structures",
       "rich_text_structures", "caption">>)>>),
   page_block_divider_struct |->
     Struct(<<Field("sname", <<"Computed", "page_block_divider">>),
       Field("signature", <<"Const", <<56096, 45448>>>>)>>),
   page_block_list_struct |->
     Struct(<<Field("sname", <<"Computed", "page_block_list">>),
       Field("signature", <<"Const", <<58600, 32785>>>>),
       Field("_vector_sig", <<"Const", <<7349, 50197>>>>),
       Field("page_list_item_num", <<"Int32ul">>),
       Field("page_list_item_array", <<"Array", "page_list_item_num",
       <<"structures", "page_list_item_structures", "page_list_item">>>>)>>),
   page_block_photo_layer82_struct |->
     Struct(<<Field("sname", <<"Computed", "page_block_photo_layer82">>),
       Field("signature", <<"Const", <<59846, 39298>>>>), Field("photo_id",
       <<"Int64ul">>), Field("caption", <<"structures",
       "rich_text_structures", "caption">>)>>),
   page_block_channel_struct |->
     Struct(<<Field("sname", <<"Computed", "page_block_channel">>),
       Field("signature", <<"Const", <<61207, 20917>>>>), Field("channel",
       <<"structures", "chat_structures", "channel">>)>>),
   page_block_subheader_struct |->
     Struct(<<Field("sname", <<"Computed", "page_block_subheader">>),
       Field("signature", <<"Const", <<61739, 46817>>>>), Field("text",
       <<"structures", "rich_text_structures", "text">>)>>),
   page_block_embed_post_struct |->
     Struct(<<Field("sname", <<"Computed", "page_block_embed_post">>),
       Field("signature", <<"Const", <<62041, 43019>>>>), Field("url",
       tstring_struct), Field("webpage_id", <<"Int64ul">>),
       Field("author_photo_id", <<"Int64ul">>), Field("date",
       ttimestamp_struct), Field("_vector_sig", <<"Const", <<7349,
       50197>>>>), Field("page_blocks_num", <<"Int32ul">>),
       Field("page_blocks_array", <<"Array", "page_blocks_num",
       <<"structures", "page_block_structures", "page_block">>>>),
       Field("caption", <<"self", "page_caption_struct">>)>>),
   page_block_slideshow_struct |->
     Struct(<<Field("sname", <<"Computed", "page_block_slideshow">>),
       Field("signature", <<"Const", <<799, 38288>>>>), Field("_vector_sig",
       <<"Const", <<7349, 50197>>>>), Field("page_blocks_num",
       <<"Int32ul">>), Field("page_blocks_array", <<"Array",
       "page_blocks_num", <<"structures", "page_block_structures",
       "page_block">>>>), Field("caption", <<"self",
       "page_caption_struct">>)>>),
   page_block_collage_layer82_struct |->
     Struct(<<Field("sname", <<"Computed", "page_block_collage_layer82">>),
       Field("signature", <<"Const", <<2227, 7247>>>>), Field("_vector_sig",
       <<"Const", <<7349, 50197>>>>), Field("page_blocks_num",
       <<"Int32ul">>), Field("page_blocks_array", <<"Array",
       "page_blocks_num", <<"structures", "page_block_structures",
       "page_block">>>>), Field("caption_text", <<"structures",
       "rich_text_structures", "caption_text">>)>>),
   page_block_slideshow_layer82_struct |->
     Struct(<<Field("sname", <<"Computed", "page_block_slideshow_layer82">>),
       Field("signature", <<"Const", <<4876, 35171>>>>), Field("_vector_sig",
       <<"Const", <<7349, 50197>>>>), Field("page_blocks_num",
       <<"Int32ul">>), Field("page_blocks_array", <<"Array",
       "page_blocks_num", <<"structures", "page_block_structures",
       "page_block">>>>), Field("caption_text", <<"structures",
       "rich_text_structures", "caption_text">>)>>),
   page_block_unsupported_struct |->
     Struct(<<Field("sname", <<"Computed", "page_block_unsupported">>),
       Field("signature", <<"Const", <<4950, 32394>>>>)>>),
   page_block_related_articles_struct |->
     Struct(<<Field("sname", <<"Computed", "page_block_related_articles">>),
       Field("signature", <<"Const", <<5649, 23190>>>>), Field("title",
       <<"structures", "rich_text_structures", "title">>),
       Field("_vector_sig", <<"Const", <<7349, 50197>>>>),
       Field("page_related_articles_num", <<"Int32ul">>),
       Field("page_related_articles_array", <<"Array",
       "page_related_articles_num", <<"self",
       "page_related_article_struct">>>>)>>),
   page_block_photo_struct |->
     Struct(<<Field("sname", <<"Computed", "page_block_photo">>),
       Field("signature", <<"Const", <<5977, 50528>>>>), Field("flags",
       <<"FlagsEnum_Int32ul", [has_url |-> 0]>>), Field("photo_id",
       <<"Int64ul">>), Field("caption", <<"self", "page_caption_struct">>),
       Field("url", <<"If", "has_url", tstring_struct>>), Field("webpage_id",
       <<"If", "has_url", <<"Int64ul">>>>)>>),
   page_block_kicker_struct |->
     Struct(<<Field("sname", <<"Computed", "page_block_kicker">>),
       Field("signature", <<"Const", <<7700, 33680>>>>), Field("text",
       <<"structures", "rich_text_structures", "text">>)>>),
   page_block_blockquote_struct |->
     Struct(<<Field("sname", <<"Computed", "page_block_blockquote">>),
       Field("signature", <<"Const", <<9789, 31782>>>>), Field("text",
       <<"structures", "rich_text_structures", "text">>), Field("caption",
       <<"structures", "rich_text_structures", "caption">>)>>),
   page_block_embed_post_layer82_struct |->
     Struct(<<Field("sname", <<"Computed",
       "page_block_embed_post_layer82">>), Field("signature", <<"Const",
       <<10540, 31721>>>>), Field("url", tstring_struct), Field("webpage_id",
       <<"Int64ul">>), Field("author_photo_id", <<"Int64ul">>),
       Field("author", tstring_struct), Field("date", ttimestamp_struct),
       Field("_vector_sig", <<"Const", <<7349, 50197>>>>),
       Field("page_blocks_num", <<"Int32ul">>), Field("page_blocks_array",
       <<"Array", "page_blocks_num", <<"structures", "page_block_structures",
       "page_block">>>>), Field("caption_text", <<"structures",
       "rich_text_structures", "caption_text">>)>>),
   page_block_audio_layer82_struct |->
     Struct(<<Field("sname", <<"Computed", "page_block_audio_layer82">>),
       Field("signature", <<"Const", <<12728, 6783>>>>), Field("audio_id",
       <<"Int64ul">>), Field("caption_text", <<"structures",
       "rich_text_structures", "caption_text">>)>>),
   page_block_cover_struct |->
     Struct(<<Field("sname", <<"Computed", "page_block_cover">>),
       Field("signature", <<"Const", <<14834, 13056>>>>), Field("cover",
       <<"structures", "page_block_structures", "cover">>)>>),
   page_block_list_layer82_struct |->
     Struct(<<Field("sname", <<"Computed", "page_block_list_layer82">>),
       Field("signature", <<"Const", <<14936, 51188>>>>), Field("ordered",
       tbool_struct), Field("_vector_sig", <<"Const", <<7349, 50197>>>>),
       Field("rich_text_num", <<"Int32ul">>), Field("rich_text_array",
       <<"Array", "rich_text_num", <<"structures", "rich_text_structures",
       "rich_text">>>>)>>),
   page_block_author_date_layer60_struct |->
     Struct(<<Field("sname", <<"Computed",
       "page_block_author_date_layer60">>), Field("signature", <<"Const",
       <<15707, 25842>>>>), Field("author_string", tstring_struct),
       Field("published_timestamp", <<"Int32ul">>)>>),
   page_block_paragraph_struct |->
     Struct(<<Field("sname", <<"Computed", "page_block_paragraph">>),
       Field("signature", <<"Const", <<18042, 1894>>>>), Field("text",
       <<"structures", "rich_text_structures", "text">>)>>),
   page_block_footer_struct |->
     Struct(<<Field("sname", <<"Computed", "page_block_footer">>),
       Field("signature", <<"Const", <<18567, 2457>>>>), Field("text",
       <<"structures", "rich_text_structures", "text">>)>>),
   page_block_pullquote_struct |->
     Struct(<<Field("sname", <<"Computed", "page_block_pullquote">>),
       Field("signature", <<"Const", <<20292, 22227>>>>), Field("text",
       <<"structures", "rich_text_structures", "text">>), Field("caption",
       <<"structures", "rich_text_structures", "caption">>)>>),
   page_block_collage_struct |->
     Struct(<<Field("sname", <<"Computed", "page_block_collage">>),
       Field("signature", <<"Const", <<26016, 64077>>>>),
       Field("_vector_sig", <<"Const", <<7349, 50197>>>>),
       Field("page_blocks_num", <<"Int32ul">>), Field("page_blocks_array",
       <<"Array", "page_blocks_num", <<"structures", "page_block_structures",
       "page_block">>>>), Field("caption", <<"self",
       "page_caption_struct">>)>>),
   page_block_title_struct |->
     Struct(<<Field("sname", <<"Computed", "page_block_title">>),
       Field("signature", <<"Const", <<28843, 50173>>>>), Field("text",
       <<"structures", "rich_text_structures", "text">>)>>),
   page_block_details_struct |->
     Struct(<<Field("sname", <<"Computed", "page_block_details">>),
       Field("signature", <<"Const", <<30326, 35821>>>>), Field("flags",
       <<"FlagsEnum_Int32ul", [is_open |-> 0]>>), Field("_vector_sig",
       <<"Const", <<7349, 50197>>>>), Field("page_blocks_num",
       <<"Int32ul">>), Field("page_blocks_array", <<"Array",
       "page_blocks_num", <<"structures", "page_block_structures",
       "page_block">>>>), Field("title", <<"structures",
       "rich_text_structures", "title">>)>>),
   page_block_video_struct |->
     Struct(<<Field("sname", <<"Computed", "page_block_video">>),
       Field("signature", <<"Const", <<31887, 59318>>>>), Field("flags",
       <<"FlagsEnum_Int32ul", [autoplay |-> 0, loop |-> 1]>>),
       Field("video_id", <<"Int64ul">>), Field("caption", <<"self",
       "page_caption_struct">>)>>),
   page_part_layer67_struct |->
     Struct(<<Field("sname", <<"Computed", "page_part_layer67">>),
       Field("signature", <<"Const", <<36334, 27716>>>>),
       Field("vector_sig_page_block", <<"Const", <<7349, 50197>>>>),
       Field("page_block_num", <<"Int32ul">>), Field("page_block_array",
       <<"Array", "page_block_num", <<"structures", "page_block_structures",
       "page_block">>>>), Field("vector_sig_photo", <<"Const", <<7349,
       50197>>>>), Field("photo_num", <<"Int32ul">>), Field("photo_array",
       <<"Array", "photo_num", <<"structures", "photo_structures",
       "photo">>>>), Field("vector_sig_document", <<"Const", <<7349,
       50197>>>>), Field("document_num", <<"Int32ul">>),
       Field("document_array", <<"Array", "document_num", <<"structures",
       "document_structures", "document">>>>)>>),
   page_full_layer67_struct |->
     Struct(<<Field("sname", <<"Computed", "page_full_layer67">>),
       Field("signature", <<"Const", <<55201, 40297>>>>),
       Field("vector_sig_page_block", <<"Const", <<7349, 50197>>>>),
       Field("page_block_num", <<"Int32ul">>), Field("page_block_array",
       <<"Array", "page_block_num", <<"structures", "page_block_structures",
       "page_block">>>>), Field("vector_sig_photo", <<"Const", <<7349,
       50197>>>>), Field("photo_num", <<"Int32ul">>), Field("photo_array",
       <<"Array", "photo_num", <<"structures", "photo_structures",
       "photo">>>>), Field("vector_sig_document", <<"Const", <<7349,
       50197>>>>), Field("document_num", <<"Int32ul">>),
       Field("document_array", <<"Array", "document_num", <<"structures",
       "document_structures", "document">>>>)>>),
   page_part_layer82_struct |->
     Struct(<<Field("sname", <<"Computed", "page_part_layer82">>),
       Field("signature", <<"Const", <<36415, 40638>>>>),
       Field("vector_sig_page_block", <<"Const", <<7349, 50197>>>>),
       Field("page_block_num", <<"Int32ul">>), Field("page_block_array",
       <<"Array", "page_block_num", <<"structures", "page_block_structures",
       "page_block">>>>), Field("vector_sig_photo", <<"Const", <<7349,
       50197>>>>), Field("photo_num", <<"Int32ul">>), Field("photo_array",
       <<"Array", "photo_num", <<"structures", "photo_structures",
       "photo">>>>), Field("vector_sig_document", <<"Const", <<7349,
       50197>>>>), Field("document_num", <<"Int32ul">>),
       Field("document_array", <<"Array", "document_num", <<"structures",
       "document_structures", "document">>>>)>>),
   page_full_layer82_struct |->
     Struct(<<Field("sname", <<"Computed", "page_full_layer82">>),
       Field("signature", <<"Const", <<21870, 51114>>>>),
       Field("vector_sig_page_block", <<"Const", <<7349, 50197>>>>),
       Field("page_block_num", <<"Int32ul">>), Field("page_block_array",
       <<"Array", "page_block_num", <<"structures", "page_block_structures",
       "page_block">>>>), Field("vector_sig_photo", <<"Const", <<7349,
       50197>>>>), Field("photo_num", <<"Int32ul">>), Field("photo_array",
       <<"Array", "photo_num", <<"structures", "photo_structures",
       "photo">>>>), Field("vector_sig_document", <<"Const", <<7349,
       50197>>>>), Field("document_num", <<"Int32ul">>),
       Field("document_array", <<"Array", "document_num", <<"structures",
       "document_structures", "document">>>>)>>),
   page_layer110_struct |->
     Struct(<<Field("sname", <<"Computed", "page_layer110">>),
       Field("signature", <<"Const", <<44681, 7148>>>>), Field("flags",
       <<"FlagsEnum_Int32ul", [part |-> 0, rtl |-> 1]>>), Field("url",
       tstring_struct), Field("vector_sig_page_block", <<"Const", <<7349,
       50197>>>>), Field("page_block_num", <<"Int32ul">>),
       Field("page_block_array", <<"Array", "page_block_num", <<"structures",
       "page_block_structures", "page_block">>>>), Field("vector_sig_photo",
       <<"Const", <<7349, 50197>>>>), Field("photo_num", <<"Int32ul">>),
       Field("photo_array", <<"Array", "photo_num", <<"structures",
       "photo_structures", "photo">>>>), Field("vector_sig_document",
       <<"Const", <<7349, 50197>>>>), Field("document_num", <<"Int32ul">>),
       Field("document_array", <<"Array", "document_num", <<"structures",
       "document_structures", "document">>>>)>>),
   page_struct |->
     Struct(<<Field("sname", <<"Computed", "page">>), Field("signature",
       <<"Const", <<39013, 32525>>>>), Field("flags", <<"FlagsEnum_Int32ul",
       [part |-> 0, rtl |-> 1, v2 |-> 2, has_views |-> 3]>>), Field("url",
       tstring_struct), Field("vector_sig_page_block", <<"Const", <<7349,
       50197>>>>), Field("page_block_num", <<"Int32ul">>),
       Field("page_block_array", <<"Array", "page_block_num", <<"structures",
       "page_block_structures", "page_block">>>>), Field("vector_sig_photo",
       <<"Const", <<7349, 50197>>>>), Field("photo_num", <<"Int32ul">>),
       Field("photo_array", <<"Array", "photo_num", <<"structures",
       "photo_structures", "photo">>>>), Field("vector_sig_document",
       <<"Const", <<7349, 50197>>>>), Field("document_num", <<"Int32ul">>),
       Field("document_array", <<"Array", "document_num", <<"structures",
       "document_structures", "document">>>>), Field("views", <<"If",
       "has_views", <<"Int32ul">>>>)>>),
   page_list_item_text_struct |->
     Struct(<<Field("sname", <<"Computed", "page_list_item_text">>),
       Field("signature", <<"Const", <<47407, 46797>>>>), Field("text",
       <<"structures", "rich_text_structures", "text">>)>>),
   page_list_item_blocks_struct |->
     Struct(<<Field("sname", <<"Computed", "page_list_item_blocks">>),
       Field("signature", <<"Const", <<9696, 29692>>>>), Field("vector_sig",
       <<"Const", <<7349, 50197>>>>), Field("page_block_num", <<"Int32ul">>),
       Field("page_block_array", <<"Array", "page_block_num", <<"structures",
       "page_block_structures", "page_table_cell">>>>)>>),
   page_related_article_struct |->
     Struct(<<Field("sname", <<"Computed", "page_related_article">>),
       Field("signature", <<"Const", <<45968, 56328>>>>), Field("flags",
       <<"FlagsEnum_Int32ul", [has_title |-> 0, has_description |-> 1,
       has_photo |-> 2, has_author |-> 3, has_published_timestamp |-> 4]>>),
       Field("url", tstring_struct), Field("webpage_id", <<"Int64ul">>),
       Field("title", <<"If", "has_title", tstring_struct>>),
       Field("description", <<"If", "has_description", tstring_struct>>),
       Field("photo_id", <<"If", "has_photo", <<"Int64ul">>>>),
       Field("author", <<"If", "has_author", tstring_struct>>),
       Field("published_timestamp", <<"If", "has_published_timestamp",
       <<"Int32ul">>>>)>>),
   page_table_cell_struct |->
     Struct(<<Field("sname", <<"Computed", "page_table_cell">>),
       Field("signature", <<"Const", <<13398, 27498>>>>), Field("flags",
       <<"FlagsEnum_Int32ul", [header |-> 0, has_colspan |-> 1,
       has_rowspan |-> 2, align_center |-> 3, align_right |-> 4,
       valign_middle |-> 5, valign_bottom |-> 6, has_text |-> 7]>>),
       Field("text", <<"If", "has_text", <<"structures",
       "rich_text_structures", "text">>>>), Field("colspan", <<"If",
       "has_colspan", <<"Int32ul">>>>), Field("rowspan", <<"If",
       "has_rowspan", <<"Int32ul">>>>)>>),
   page_table_row_struct |->
     Struct(<<Field("sname", <<"Computed", "page_table_row">>),
       Field("signature", <<"Const", <<57536, 50661>>>>), Field("vector_sig",
       <<"Const", <<7349, 50197>>>>), Field("page_table_cell_num",
       <<"Int32ul">>), Field("page_table_cell_array", <<"Array",
       "page_table_cell_num", <<"self", "page_table_cell_struct">>>>)>>),
   peer_channel_struct |-> peer_channel_struct,
   peer_chat_struct |-> peer_chat_struct,
   peer_user_struct |-> peer_user_struct,
   peer_notify_settings_layer47_struct |-> peer_notify_settings_layer47_struct,
   peer_notify_settings_layer77_struct |->
     Struct(<<Field("sname", <<"Computed", "peer_notify_settings_layer77">>),
       Field("signature", <<"Const", <<39629, 42176>>>>), Field("flags",
       <<"FlagsEnum_Int32ul", [show_previews |-> 0, is_silent |-> 1]>>),
       Field("mute_until", <<"Int32ul">>), Field("sound", tstring_struct)>>),
   peer_notify_settings_struct |->
     Struct(<<Field("sname", <<"Computed", "peer_notify_settings">>),
       Field("signature", <<"Const", <<44880, 40224>>>>), Field("flags",
       <<"FlagsEnum_Int32ul", [has_show_previews |-> 0, has_silent |-> 1,
       has_mute_until |-> 2, has_sound |-> 3]>>), Field("show_previews",
       <<"If", "has_show_previews", tbool_struct>>), Field("silent", <<"If",
       "has_silent", tbool_struct>>), Field("mute_until", <<"If",
       "has_mute_until", <<"Int32ul">>>>), Field("sound", <<"If",
       "has_sound", tstring_struct>>)>>),
   peer_notify_settings_empty_layer77_struct |->
     Struct(<<Field("sname", <<"Computed",
       "peer_notify_settings_empty_layer77">>), Field("signature", <<"Const",
       <<28838, 34066>>>>)>>),
   peer_settings_v_5_15_0_struct |->
     Struct(<<Field("sname", <<"Computed", "peer_settings_v_5_15_0">>),
       Field("signature", <<"Const", <<33156, 9933>>>>), Field("flags",
       <<"FlagsEnum_Int32ul", [report_spam |-> 0, add_contact |-> 1,
       block_contact |-> 2, share_contact |-> 3,
       need_contacts_exception |-> 4, report_geo |-> 5]>>)>>),
   peer_settings_struct |->
     Struct(<<Field("sname", <<"Computed", "peer_settings">>),
       Field("signature", <<"Const", <<29503, 10593>>>>), Field("flags",
       <<"FlagsEnum_Int32ul", [report_spam |-> 0, add_contact |-> 1,
       block_contact |-> 2, share_contact |-> 3,
       need_contacts_exception |-> 4, report_geo |-> 5,
       has_geo_distance |-> 6, autoarchived |-> 7]>>), Field("geo_distance",
       <<"If", "has_geo_distance", <<"Int32ul">>>>)>>),
   phone_call_discard_reason_missed_struct |->
     Struct(<<Field("sname", <<"Computed",
       "phone_call_discard_reason_missed">>), Field("signature", <<"Const",
       <<34276, 8961>>>>)>>),
   phone_call_discard_reason_busy_struct |->
     Struct(<<Field("sname", <<"Computed",
       "phone_call_discard_reason_busy">>), Field("signature", <<"Const",
       <<64247, 59593>>>>)>>),
   phone_call_discard_reason_hangup_struct |->
     Struct(<<Field("sname", <<"Computed",
       "phone_call_discard_reason_hangup">>), Field("signature", <<"Const",
       <<22445, 50832>>>>)>>),
   phone_call_discard_reason_disconnect_struct |->
     Struct(<<Field("sname", <<"Computed",
       "phone_call_discard_reason_disconnect">>), Field("signature",
       <<"Const", <<57493, 49568>>>>)>>),
   phone_call_discard_reason_allow_group_call_struct |->
     Struct(<<Field("sname", <<"Computed",
       "phone_call_discard_reason_allow_group_call">>), Field("signature",
       <<"Const", <<45026, 47161>>>>), Field("encrypted_key",
       tbytes_struct)>>),
   phone_call_discarded_struct |->
     Struct(<<Field("sname", <<"Computed", "phone_call_discarded">>),
       Field("signature", <<"Const", <<20682, 19937>>>>), Field("flags",
       <<"FlagsEnum_Int32ul", [is_discarded |-> 0, has_duration |-> 1,
       need_rating |-> 2, need_debug |-> 3, is_video |-> 5]>>), Field("id",
       <<"Int64ul">>), Field("discard_reason", <<"If", "is_discarded",
       <<"structures", "phone_call_discard_reason_structures",
       "discard_reason">>>>), Field("duration", <<"If", "has_duration",
       <<"Int32ul">>>>)>>),
   photo_size_empty_struct |->
     Struct(<<Field("sname", <<"Computed", "photo_size_empty">>),
       Field("signature", <<"Const", <<3607, 57916>>>>), Field("type",
       tstring_struct)>>),
   photo_size_struct |->
     Struct(<<Field("sname", <<"Computed", "photo_size">>),
       Field("signature", <<"Const", <<30655, 46619>>>>), Field("type",
       tstring_struct), Field("file_location", <<"structures",
       "file_location_structures", "file_location">>), Field("w",
       <<"Int32ul">>), Field("h", <<"Int32ul">>), Field("size",
       <<"Int32ul">>)>>),
   photo_stripped_size_struct |->
     Struct(<<Field("sname", <<"Computed", "photo_stripped_size">>),
       Field("signature", <<"Const", <<57520, 48174>>>>), Field("type",
       tstring_struct), Field("bytes", tbytes_struct), Field("h",
       <<"Computed_int", 50>>), Field("w", <<"Computed_int", 50>>)>>),
   photo_cached_size_struct |->
     Struct(<<Field("sname", <<"Computed", "photo_cached_size">>),
       Field("signature", <<"Const", <<59815, 13562>>>>), Field("type",
       tstring_struct), Field("location", <<"structures",
       "file_location_structures", "location">>), Field("w", <<"Int32ul">>),
       Field("h", <<"Int32ul">>), Field("bytes", tbytes_struct)>>),
   photo_empty_struct |->
     Struct(<<Field("sname", <<"Computed", "photo_empty">>),
       Field("signature", <<"Const", <<9009, 45613>>>>), Field("id",
       <<"Int64ul">>)>>),
   photo_layer55_struct |->
     Struct(<<Field("sname", <<"Computed", "photo_layer55">>),
       Field("signature", <<"Const", <<52717, 17150>>>>), Field("id",
       <<"Int64ul">>), Field("access_hash", <<"Int64ul">>), Field("date",
       ttimestamp_struct), Field("vector_sig", <<"Const", <<7349, 50197>>>>),
       Field("photo_size_num", <<"Int32ul">>), Field("photo_size_array",
       <<"Array", "photo_size_num", <<"structures", "photo_size_structures",
       "photo_size">>>>)>>),
   photo_layer82_struct |->
     Struct(<<Field("sname", <<"Computed", "photo_layer82">>),
       Field("signature", <<"Const", <<37512, 56617>>>>), Field("flags",
       <<"FlagsEnum_Int32ul", [has_stickers |-> 0]>>), Field("id",
       <<"Int64ul">>), Field("access_hash", <<"Int64ul">>), Field("date",
       ttimestamp_struct), Field("vector_sig", <<"Const", <<7349, 50197>>>>),
       Field("photo_size_num", <<"Int32ul">>), Field("photo_size_array",
       <<"Array", "photo_size_num", <<"structures", "photo_size_structures",
       "photo_size">>>>)>>),
   photo_old_struct |->
     Struct(<<Field("sname", <<"Computed", "photo_old">>), Field("signature",
       <<"Const", <<8885, 26449>>>>), Field("id", <<"Int64ul">>),
       Field("access_hash", <<"Int64ul">>), Field("user_id", <<"Int32ul">>),
       Field("date", ttimestamp_struct), Field("caption", tstring_struct),
       Field("geo", <<"structures", "geo_point_structures", "geo">>),
       Field("vector_sig", <<"Const", <<7349, 50197>>>>),
       Field("photo_size_num", <<"Int32ul">>), Field("photo_size_array",
       <<"Array", "photo_size_num", <<"structures", "photo_size_structures",
       "photo_size">>>>)>>),
   photo_old2_struct |->
     Struct(<<Field("sname", <<"Computed", "photo_old2">>),
       Field("signature", <<"Const", <<50051, 32886>>>>), Field("id",
       <<"Int64ul">>), Field("access_hash", <<"Int64ul">>), Field("user_id",
       <<"Int32ul">>), Field("date", ttimestamp_struct), Field("geo",
       <<"structures", "geo_point_structures", "geo">>), Field("vector_sig",
       <<"Const", <<7349, 50197>>>>), Field("photo_size_num", <<"Int32ul">>),
       Field("photo_size_array", <<"Array", "photo_size_num", <<"structures",
       "photo_size_structures", "photo_size">>>>)>>),
   photo_layer97_struct |->
     Struct(<<Field("sname", <<"Computed", "photo_layer97">>),
       Field("signature", <<"Const", <<40007, 32216>>>>), Field("flags",
       <<"FlagsEnum_Int32ul", [has_stickers |-> 0]>>), Field("id",
       <<"Int64ul">>), Field("access_hash", <<"Int64ul">>),
       Field("file_reference", tbytes_struct), Field("date",
       ttimestamp_struct), Field("vector_sig", <<"Const", <<7349, 50197>>>>),
       Field("photo_size_num", <<"Int32ul">>), Field("photo_size_array",
       <<"Array", "photo_size_num", <<"structures", "photo_size_structures",
       "photo_size">>>>)>>),
   photo_layer115_struct |->
     Struct(<<Field("sname", <<"Computed", "photo_layer115">>),
       Field("signature", <<"Const", <<53365, 1189>>>>), Field("flags",
       <<"FlagsEnum_Int32ul", [has_stickers |-> 0]>>), Field("id",
       <<"Int64ul">>), Field("access_hash", <<"Int64ul">>),
       Field("file_reference", tbytes_struct), Field("date",
       ttimestamp_struct), Field("vector_sig", <<"Const", <<7349, 50197>>>>),
       Field("photo_size_num", <<"Int32ul">>), Field("photo_size_array",
       <<"Array", "photo_size_num", <<"structures", "photo_size_structures",
       "photo_size">>>>), Field("dc_id", <<"Int32ul">>)>>),
   photo_struct |->
     Struct(<<Field("sname", <<"Computed", "photo">>), Field("signature",
       <<"Const", <<64281, 31333>>>>), Field("flags", <<"FlagsEnum_Int32ul",
       [has_stickers |-> 0, has_video_size |-> 1]>>), Field("id",
       <<"Int64ul">>), Field("access_hash", <<"Int64ul">>),
       Field("file_reference", tbytes_struct), Field("date",
       ttimestamp_struct), Field("vector_sig", <<"Const", <<7349, 50197>>>>),
       Field("photo_size_num", <<"Int32ul">>), Field("photo_size_array",
       <<"Array", "photo_size_num", <<"structures", "photo_size_structures",
       "photo_size">>>>), Field("video_size", <<"If", "has_video_size",
       Struct(<<Field("_vector_sig", <<"Const", <<7349, 50197>>>>),
       Field("video_sizes_num", <<"Int32ul">>), Field("video_sizes_array",
       <<"Array", "video_sizes_num", <<"structures", "video_size_structures",
       "video_size">>>>)>>)>>), Field("dc_id", <<"Int32ul">>)>>),
   poll_answer_struct |->
     Struct(<<Field("sname", <<"Computed", "poll_answer">>),
       Field("signature", <<"Const", <<27817, 49897>>>>), Field("text",
       tstring_struct), Field("option", tbytes_struct)>>),
   poll_answer_voters_struct |->
     Struct(<<Field("sname", <<"Computed", "poll_answer_voters">>),
       Field("signature", <<"Const", <<15213, 56018>>>>), Field("flags",
       <<"FlagsEnum_Int32ul", [is_chosen |-> 0]>>), Field("option",
       tbytes_struct), Field("voters", <<"Int32ul">>)>>),
   poll_layer111_struct |->
     Struct(<<Field("sname", <<"Computed", "poll_layer111">>),
       Field("signature", <<"Const", <<54610, 40198>>>>), Field("id",
       <<"Int64ul">>), Field("flags", <<"FlagsEnum_Int32ul",
       [closed |-> 0]>>), Field("question", tstring_struct),
       Field("_vector_sig", <<"Const", <<7349, 50197>>>>),
       Field("poll_answers_num", <<"Int32ul">>), Field("poll_answers_array",
       <<"Array", "poll_answers_num", <<"self", "poll_answer_struct">>>>)>>),
   poll_struct |->
     Struct(<<Field("sname", <<"Computed", "poll">>), Field("signature",
       <<"Const", <<34529, 33121>>>>), Field("id", <<"Int64ul">>),
       Field("flags", <<"FlagsEnum_Int32ul", [closed |-> 0,
       public_voters |-> 1, multiple_choice |-> 2, quiz |-> 3,
       has_close_period |-> 4, has_close_date |-> 5]>>), Field("question",
       tstring_struct), Field("_vector_sig", <<"Const", <<7349, 50197>>>>),
       Field("poll_answers_num", <<"Int32ul">>), Field("poll_answers_array",
       <<"Array", "poll_answers_num", <<"self", "poll_answer_struct">>>>),
       Field("close_period", <<"If", "has_close_period", <<"Int32ul">>>>),
       Field("close_date", <<"If", "has_close_date", ttimestamp_struct>>)>>),
   poll_to_delete_struct |->
     Struct(<<Field("sname", <<"Computed", "poll_to_delete">>),
       Field("signature", <<"Const", <<44916, 26502>>>>), Field("id",
       <<"Int64ul">>), Field("flags", <<"FlagsEnum_Int32ul", [closed |-> 0,
       public_voters |-> 1, multiple_choice |-> 2, quiz |-> 3,
       has_close_date |-> 4]>>), Field("question", tstring_struct),
       Field("_vector_sig", <<"Const", <<7349, 50197>>>>),
       Field("poll_answers_num", <<"Int32ul">>), Field("poll_answers_array",
       <<"Array", "poll_answers_num", <<"self", "poll_answer_struct">>>>),
       Field("close_date", <<"If", "has_close_date", ttimestamp_struct>>)>>),
   poll_results_layer108_struct |->
     Struct(<<Field("sname", <<"Computed", "poll_results_layer108">>),
       Field("signature", <<"Const", <<22357, 30810>>>>), Field("flags",
       <<"FlagsEnum_Int32ul", [min |-> 0, voters |-> 1, total |-> 2]>>),
       Field("poll_answer_voters", <<"If", "voters",
       Struct(<<Field("_vector_sig", <<"Const", <<7349, 50197>>>>),
       Field("poll_answer_voters_num", <<"Int32ul">>),
       Field("poll_answer_voters_array", <<"Array", "poll_answer_voters_num",
       <<"self", "poll_answer_voters_struct">>>>)>>)>>),
       Field("total_voters", <<"If", "total", <<"Int32ul">>>>)>>),
   poll_results_layer111_struct |->
     Struct(<<Field("sname", <<"Computed", "poll_results_layer111">>),
       Field("signature", <<"Const", <<51312, 9378>>>>), Field("flags",
       <<"FlagsEnum_Int32ul", [min |-> 0, voters |-> 1, total |-> 2,
       recent_voters |-> 3]>>), Field("poll_answer_voters", <<"If", "voters",
       Struct(<<Field("_vector_sig", <<"Const", <<7349, 50197>>>>),
       Field("poll_answer_voters_num", <<"Int32ul">>),
       Field("poll_answer_voters_array", <<"Array", "poll_answer_voters_num",
       <<"self", "poll_answer_voters_struct">>>>)>>)>>),
       Field("total_voters", <<"If", "total", <<"Int32ul">>>>),
       Field("poll_recent_voters", <<"If", "recent_voters",
       Struct(<<Field("_vector_sig", <<"Const", <<7349, 50197>>>>),
       Field("poll_answer_voters_num", <<"Int32ul">>),
       Field("poll_answer_voters_array", <<"Array", "poll_answer_voters_num",
       <<"Int32ul">>>>)>>)>>)>>),
   poll_results_struct |->
     Struct(<<Field("sname", <<"Computed", "poll_results">>),
       Field("signature", <<"Const", <<47836, 49571>>>>), Field("flags",
       <<"FlagsEnum_Int32ul", [min |-> 0, voters |-> 1, total |-> 2,
       recent_voters |-> 3, has_solution |-> 4]>>),
       Field("poll_answer_voters", <<"If", "voters",
       Struct(<<Field("_vector_sig", <<"Const", <<7349, 50197>>>>),
       Field("poll_answer_voters_num", <<"Int32ul">>),
       Field("poll_answer_voters_array", <<"Array", "poll_answer_voters_num",
       <<"self", "poll_answer_voters_struct">>>>)>>)>>),
       Field("total_voters", <<"If", "total", <<"Int32ul">>>>),
       Field("poll_recent_voters", <<"If", "has_recent_voters",
       Struct(<<Field("_vector_sig", <<"Const", <<7349, 50197>>>>),
       Field("poll_answer_voters_num", <<"Int32ul">>),
       Field("poll_answer_voters_array", <<"Array", "poll_answer_voters_num",
       <<"Int32ul">>>>)>>)>>), Field("solution", <<"If", "has_solution",
       tstring_struct>>), Field("solution_entities", <<"If", "has_solution",
       Struct(<<Field("_vector_sig", <<"Const", <<7349, 50197>>>>),
       Field("entities_num", <<"Int32ul">>), Field("entities_array",
       <<"Array", "entities_num", <<"structures",
       "message_entity_structures", "message_entity">>>>)>>)>>)>>),
   reaction_count_struct |->
     Struct(<<Field("sname", <<"Computed", "reaction_count">>),
       Field("signature", <<"Const", <<28594, 20689>>>>), Field("flags",
       <<"FlagsEnum_Int32ul", [chosen |-> 0]>>), Field("reaction",
       tstring_struct), Field("count", <<"Int32ul">>)>>),
   reply_keyboard_hide_struct |->
     Struct(<<Field("sname", <<"Computed", "reply_keyboard_hide">>),
       Field("signature", <<"Const", <<41022, 23429>>>>), Field("flags",
       <<"FlagsEnum_Int32ul", [selective |-> 2]>>)>>),
   reply_keyboard_force_reply_struct |->
     Struct(<<Field("sname", <<"Computed", "reply_keyboard_force_reply">>),
       Field("signature", <<"Const", <<62480, 35488>>>>), Field("flags",
       <<"FlagsEnum_Int32ul", [single_use |-> 1, selective |-> 2]>>)>>),
   reply_keyboard_markup_struct |->
     Struct(<<Field("sname", <<"Computed", "reply_keyboard_markup">>),
       Field("signature", <<"Const", <<13570, 30092>>>>), Field("flags",
       <<"FlagsEnum_Int32ul", [resize |-> 0, single_use |-> 1,
       selective |-> 2]>>), Field("_vector_sig", <<"Const", <<7349,
       50197>>>>), Field("keyboard_button_rows_num", <<"Int32ul">>),
       Field("keyboard_button_rows", <<"Array", "keyboard_button_rows_num",
       <<"self", "keyboard_button_row_struct">>>>)>>),
   reply_inline_markup_struct |->
     Struct(<<Field("sname", <<"Computed", "reply_inline_markup">>),
       Field("signature", <<"Const", <<18595, 596>>>>), Field("_vector_sig",
       <<"Const", <<7349, 50197>>>>), Field("keyboard_button_rows_num",
       <<"Int32ul">>), Field("keyboard_button_rows", <<"Array",
       "keyboard_button_rows_num", <<"self",
       "keyboard_button_row_struct">>>>)>>),
   restriction_reason_struct |-> restriction_reason_struct,
   send_message_record_round_action_struct |->
     Struct(<<Field("sname", <<"Computed",
       "send_message_record_round_action">>), Field("signature", <<"Const",
       <<35058, 32700>>>>)>>),
   send_message_upload_document_action_old_struct |->
     Struct(<<Field("sname", <<"Computed",
       "send_message_upload_document_action_old">>), Field("signature",
       <<"Const", <<36782, 59790>>>>)>>),
   send_message_upload_video_action_old_struct |->
     Struct(<<Field("sname", <<"Computed",
       "send_message_upload_video_action_old">>), Field("signature",
       <<"Const", <<37380, 12279>>>>)>>),
   send_message_upload_photo_action_old_struct |->
     Struct(<<Field("sname", <<"Computed",
       "send_message_upload_photo_action_old">>), Field("signature",
       <<"Const", <<39178, 15386>>>>)>>),
   send_message_record_video_action_struct |->
     Struct(<<Field("sname", <<"Computed",
       "send_message_record_video_action">>), Field("signature", <<"Const",
       <<41351, 54895>>>>)>>),
   send_message_upload_document_action_struct |->
     Struct(<<Field("sname", <<"Computed",
       "send_message_upload_document_action">>), Field("signature",
       <<"Const", <<43532, 55780>>>>), Field("progress", <<"Int32ul">>)>>),
   send_message_upload_photo_action_struct |->
     Struct(<<Field("sname", <<"Computed",
       "send_message_upload_photo_action">>), Field("signature", <<"Const",
       <<53715, 18982>>>>), Field("progress", <<"Int32ul">>)>>),
   send_message_record_audio_action_struct |->
     Struct(<<Field("sname", <<"Computed",
       "send_message_record_audio_action">>), Field("signature", <<"Const",
       <<54575, 29687>>>>)>>),
   send_message_game_play_action_struct |->
     Struct(<<Field("sname", <<"Computed",
       "send_message_game_play_action">>), Field("signature", <<"Const",
       <<56682, 36680>>>>)>>),
   send_message_upload_audio_action_old_struct |->
     Struct(<<Field("sname", <<"Computed",
       "send_message_upload_audio_action_old">>), Field("signature",
       <<"Const", <<59052, 35439>>>>)>>),
   send_message_upload_video_action_struct |->
     Struct(<<Field("sname", <<"Computed",
       "send_message_upload_video_action">>), Field("signature", <<"Const",
       <<59766, 15084>>>>), Field("progress", <<"Int32ul">>)>>),
   send_message_upload_audio_action_struct |->
     Struct(<<Field("sname", <<"Computed",
       "send_message_upload_audio_action">>), Field("signature", <<"Const",
       <<62289, 55211>>>>), Field("progress", <<"Int32ul">>)>>),
   send_message_cancel_action_struct |->
     Struct(<<Field("sname", <<"Computed", "send_message_cancel_action">>),
       Field("signature", <<"Const", <<64862, 51445>>>>)>>),
   send_message_typing_action_struct |->
     Struct(<<Field("sname", <<"Computed", "send_message_typing_action">>),
       Field("signature", <<"Const", <<5823, 29774>>>>)>>),
   send_message_geo_location_action_struct |->
     Struct(<<Field("sname", <<"Computed",
       "send_message_geo_location_action">>), Field("signature", <<"Const",
       <<5999, 35745>>>>)>>),
   send_message_upload_round_action_struct |->
     Struct(<<Field("sname", <<"Computed",
       "send_message_upload_round_action">>), Field("signature", <<"Const",
       <<9278, 7270>>>>), Field("progress", <<"Int32ul">>)>>),
   send_message_choose_contact_action_struct |->
     Struct(<<Field("sname", <<"Computed",
       "send_message_choose_contact_action">>), Field("signature", <<"Const",
       <<25228, 48239>>>>)>>),
   secure_value_type_bank_statement_struct |->
     Struct(<<Field("sname", <<"Computed",
       "secure_value_type_bank_statement">>), Field("signature", <<"Const",
       <<35091, 31757>>>>)>>),
   secure_value_type_rental_agreement_struct |->
     Struct(<<Field("sname", <<"Computed",
       "secure_value_type_rental_agreement">>), Field("signature", <<"Const",
       <<35720, 13448>>>>)>>),
   secure_value_type_email_struct |->
     Struct(<<Field("sname", <<"Computed", "secure_value_type_email">>),
       Field("signature", <<"Const", <<36412, 42990>>>>)>>),
   secure_value_type_internal_passport_struct |->
     Struct(<<Field("sname", <<"Computed",
       "secure_value_type_internal_passport">>), Field("signature",
       <<"Const", <<39332, 36643>>>>)>>),
   secure_value_type_passport_registration_struct |->
     Struct(<<Field("sname", <<"Computed",
       "secure_value_type_passport_registration">>), Field("signature",
       <<"Const", <<39395, 32874>>>>)>>),
   secure_value_type_personal_details_struct |->
     Struct(<<Field("sname", <<"Computed",
       "secure_value_type_personal_details">>), Field("signature", <<"Const",
       <<40234, 33251>>>>)>>),
   secure_value_type_identity_card_struct |->
     Struct(<<Field("sname", <<"Computed",
       "secure_value_type_identity_card">>), Field("signature", <<"Const",
       <<41168, 29771>>>>)>>),
   secure_value_type_phone_struct |->
     Struct(<<Field("sname", <<"Computed", "secure_value_type_phone">>),
       Field("signature", <<"Const", <<45856, 43739>>>>)>>),
   secure_value_type_address_struct |->
     Struct(<<Field("sname", <<"Computed", "secure_value_type_address">>),
       Field("signature", <<"Const", <<52195, 7718>>>>)>>),
   secure_value_type_temporary_registration_struct |->
     Struct(<<Field("sname", <<"Computed",
       "secure_value_type_temporary_registration">>), Field("signature",
       <<"Const", <<59906, 60467>>>>)>>),
   secure_value_type_utility_bill_struct |->
     Struct(<<Field("sname", <<"Computed",
       "secure_value_type_utility_bill">>), Field("signature", <<"Const",
       <<64566, 38222>>>>)>>),
   secure_value_type_driver_license_struct |->
     Struct(<<Field("sname", <<"Computed",
       "secure_value_type_driver_license">>), Field("signature", <<"Const",
       <<1764, 9668>>>>)>>),
   secure_value_type_passport_struct |->
     Struct(<<Field("sname", <<"Computed", "secure_value_type_passport">>),
       Field("signature", <<"Const", <<15788, 27136>>>>)>>),
   text_strike_struct |->
     Struct(<<Field("sname", <<"Computed", "text_strike">>),
       Field("signature", <<"Const", <<39928, 48021>>>>), Field("text",
       <<"structures", "rich_text_structures", "text">>)>>),
   text_underline_struct |->
     Struct(<<Field("sname", <<"Computed", "text_underline">>),
       Field("signature", <<"Const", <<49446, 8900>>>>), Field("text",
       <<"structures", "rich_text_structures", "text">>)>>),
   text_superscript_struct |->
     Struct(<<Field("sname", <<"Computed", "text_superscript">>),
       Field("signature", <<"Const", <<51195, 24065>>>>), Field("text",
       <<"structures", "rich_text_structures", "text">>)>>),
   text_italic_struct |->
     Struct(<<Field("sname", <<"Computed", "text_italic">>),
       Field("signature", <<"Const", <<55570, 42396>>>>), Field("text",
       <<"structures", "rich_text_structures", "text">>)>>),
   text_empty_struct |->
     Struct(<<Field("sname", <<"Computed", "text_empty">>),
       Field("signature", <<"Const", <<56381, 33359>>>>)>>),
   text_email_struct |->
     Struct(<<Field("sname", <<"Computed", "text_email">>),
       Field("signature", <<"Const", <<56922, 3542>>>>), Field("text",
       <<"structures", "rich_text_structures", "text">>), Field("email",
       tstring_struct)>>),
   text_subscript_struct |->
     Struct(<<Field("sname", <<"Computed", "text_subscript">>),
       Field("signature", <<"Const", <<60778, 34052>>>>), Field("text",
       <<"structures", "rich_text_structures", "text">>)>>),
   text_marked_struct |->
     Struct(<<Field("sname", <<"Computed", "text_marked">>),
       Field("signature", <<"Const", <<843, 34337>>>>), Field("text",
       <<"structures", "rich_text_structures", "text">>)>>),
   text_image_struct |->
     Struct(<<Field("sname", <<"Computed", "text_image">>),
       Field("signature", <<"Const", <<2076, 53071>>>>), Field("document_id",
       <<"Int64ul">>), Field("w", <<"Int32ul">>), Field("h",
       <<"Int32ul">>)>>),
   text_phone_struct |->
     Struct(<<Field("sname", <<"Computed", "text_phone">>),
       Field("signature", <<"Const", <<7371, 38506>>>>), Field("text",
       <<"structures", "rich_text_structures", "text">>), Field("phone",
       tstring_struct)>>),
   text_anchor_struct |->
     Struct(<<Field("sname", <<"Computed", "text_anchor">>),
       Field("signature", <<"Const", <<13653, 14178>>>>), Field("text",
       <<"structures", "rich_text_structures", "text">>), Field("name",
       tstring_struct)>>),
   text_url_struct |->
     Struct(<<Field("sname", <<"Computed", "text_url">>), Field("signature",
       <<"Const", <<15400, 33985>>>>), Field("text", <<"structures",
       "rich_text_structures", "text">>), Field("url", tstring_struct),
       Field("webpage_id", <<"Int64ul">>)>>),
   text_bold_struct |->
     Struct(<<Field("sname", <<"Computed", "text_bold">>), Field("signature",
       <<"Const", <<26404, 43972>>>>), Field("text", <<"structures",
       "rich_text_structures", "text">>)>>),
   text_fixed_struct |->
     Struct(<<Field("sname", <<"Computed", "text_fixed">>),
       Field("signature", <<"Const", <<27711, 6585>>>>), Field("text",
       <<"structures", "rich_text_structures", "text">>)>>),
   text_concat_struct |->
     Struct(<<Field("sname", <<"Computed", "text_concat">>),
       Field("signature", <<"Const", <<32354, 24791>>>>),
       Field("_vector_sig", <<"Const", <<7349, 50197>>>>),
       Field("rich_texts_num", <<"Int32ul">>), Field("rich_texts", <<"Array",
       "rich_texts_num", <<"structures", "rich_text_structures",
       "rich_text">>>>)>>),
   text_plain_struct |->
     Struct(<<Field("sname", <<"Computed", "text_plain">>),
       Field("signature", <<"Const", <<29766, 38112>>>>), Field("text",
       tstring_struct)>>),
   theme_settings_struct |->
     Struct(<<Field("sname", <<"Computed", "theme_settings">>),
       Field("signature", <<"Const", <<39956, 38986>>>>), Field("flags",
       <<"FlagsEnum_Int32ul", [has_top_color |-> 0, has_wallpaper |-> 1]>>),
       Field("base_theme", <<"structures", "base_theme_structures",
       "base_theme">>), Field("accent_color", <<"Int32ul">>),
       Field("message_top_color", <<"If", "has_top_color", <<"Int32ul">>>>),
       Field("message_bottom_color", <<"If", "has_top_color",
       <<"Int32ul">>>>), Field("wallpaper", <<"If", "has_wallpaper",
       <<"structures", "wall_paper_structures", "wallpaper">>>>)>>),
   user_full_layer98_struct |->
     Struct(<<Field("sname", <<"Computed", "user_full_layer98">>),
       Field("signature", <<"Const", <<36516, 43137>>>>), Field("flags",
       <<"FlagsEnum_Int32ul", [is_blocked |-> 0, has_about |-> 1,
       has_profile_photo |-> 2, has_bot_info |-> 3,
       phone_calls_available |-> 4, phone_calls_private |-> 5,
       has_pinned_msg_id |-> 6, can_pin_message |-> 7]>>), Field("user",
       <<"structures", "user_structures", "user">>), Field("about", <<"If",
       "has_about", tstring_struct>>), Field("link", <<"self",
       "contacts_link_layer101_struct">>), Field("profile_photo", <<"If",
       "has_profile_photo", <<"structures", "photo_structures",
       "profile_photo">>>>), Field("notify_settings", <<"structures",
       "peer_notify_settings_structures", "notify_settings">>),
       Field("bot_info", <<"If", "has_bot_info", <<"structures",
       "bot_info_structures", "bot_info">>>>), Field("pinned_msg_id", <<"If",
       "has_pinned_msg_id", <<"Int32ul">>>>), Field("common_chats_count",
       <<"Int32ul">>)>>),
   user_full_layer101_struct |->
     Struct(<<Field("sname", <<"Computed", "user_full_layer101">>),
       Field("signature", <<"Const", <<29781, 22988>>>>), Field("flags",
       <<"FlagsEnum_Int32ul", [is_blocked |-> 0, has_about |-> 1,
       has_profile_photo |-> 2, has_bot_info |-> 3,
       phone_calls_available |-> 4, phone_calls_private |-> 5,
       has_pinned_msg_id |-> 6, can_pin_message |-> 7,
       has_folder_id |-> 11]>>), Field("user", <<"structures",
       "user_structures", "user">>), Field("about", <<"If", "has_about",
       tstring_struct>>), Field("link", <<"self",
       "contacts_link_layer101_struct">>), Field("profile_photo", <<"If",
       "has_profile_photo", <<"structures", "photo_structures",
       "profile_photo">>>>), Field("notify_settings", <<"structures",
       "peer_notify_settings_structures", "notify_settings">>),
       Field("bot_info", <<"If", "has_bot_info", <<"structures",
       "bot_info_structures", "bot_info">>>>), Field("pinned_msg_id", <<"If",
       "has_pinned_msg_id", <<"Int32ul">>>>), Field("common_chats_count",
       <<"Int32ul">>), Field("folder_id", <<"If", "has_folder_id",
       <<"Int32ul">>>>)>>),
   user_full_struct |->
     Struct(<<Field("sname", <<"Computed", "user_full">>), Field("signature",
       <<"Const", <<60913, 31762>>>>), Field("flags", <<"FlagsEnum_Int32ul",
       [is_blocked |-> 0, has_about |-> 1, has_profile_photo |-> 2,
       has_bot_info |-> 3, phone_calls_available |-> 4,
       phone_calls_private |-> 5, has_pinned_msg_id |-> 6,
       can_pin_message |-> 7, has_folder_id |-> 11, has_scheduled |-> 12]>>),
       Field("user", <<"structures", "user_structures", "user">>),
       Field("about", <<"If", "has_about", tstring_struct>>),
       Field("settings", <<"structures", "peer_settings_structures",
       "peer_settings">>), Field("profile_photo", <<"If",
       "has_profile_photo", <<"structures", "photo_structures",
       "profile_photo">>>>), Field("notify_settings", <<"structures",
       "peer_notify_settings_structures", "notify_settings">>),
       Field("bot_info", <<"If", "has_bot_info", <<"structures",
       "bot_info_structures", "bot_info">>>>), Field("pinned_msg_id", <<"If",
       "has_pinned_msg_id", <<"Int32ul">>>>), Field("common_chats_count",
       <<"Int32ul">>), Field("folder_id", <<"If", "has_folder_id",
       <<"Int32ul">>>>)>>),
   user_layer104_struct |->
     Struct(<<Field("sname", <<"Computed", "user_layer104">>),
       Field("signature", <<"Const", <<11795, 62659>>>>), Field("flags",
       <<"FlagsEnum_Int32ul", [has_access_hash |-> 0, has_first_name |-> 1,
       has_last_name |-> 2, has_username |-> 3, has_phone |-> 4,
       has_profile_photo |-> 5, has_status |-> 6, is_self |-> 10,
       is_contact |-> 11, is_mutual_contact |-> 12, is_deleted |-> 13,
       is_bot |-> 14, is_bot_chat_history |-> 15, is_bot_no_chats |-> 16,
       is_verified |-> 17, is_restricted |-> 18, has_lang_code |-> 22,
       has_bot_inline_placeholder |-> 19, has_min |-> 20,
       is_bot_inline_geo |-> 21, is_support |-> 23]>>), Field("id",
       <<"Int32ul">>), Field("access_hash", <<"If", "has_access_hash",
       <<"Int64ul">>>>), Field("first_name", <<"If", "has_first_name",
       tstring_struct>>), Field("last_name", <<"If", "has_last_name",
       tstring_struct>>), Field("username", <<"If", "has_username",
       tstring_struct>>), Field("phone", <<"If", "has_phone",
       tstring_struct>>), Field("photo", <<"If", "has_profile_photo",
       <<"structures", "user_profile_photo_structures", "photo">>>>),
       Field("status", <<"If", "has_status", <<"structures",
       "user_status_structures", "status">>>>), Field("bot_info_version",
       <<"If", "is_bot", <<"Int32ul">>>>), Field("restriction_reason",
       <<"If", "is_restricted", tstring_struct>>),
       Field("bot_inline_placeholder", <<"If", "has_bot_inline_placeholder",
       tstring_struct>>), Field("lang_code", <<"If", "has_lang_code",
       tstring_struct>>)>>),
   user_deleted_old_struct |->
     Struct(<<Field("sname", <<"Computed", "user_deleted_old">>),
       Field("signature", <<"Const", <<45722, 55244>>>>), Field("id",
       <<"Int32ul">>), Field("first_name", tstring_struct),
       Field("last_name", tstring_struct)>>),
   user_deleted_old2_struct |->
     Struct(<<Field("sname", <<"Computed", "user_deleted_old2">>),
       Field("signature", <<"Const", <<54785, 28026>>>>), Field("id",
       <<"Int32ul">>), Field("first_name", tstring_struct),
       Field("last_name", tstring_struct), Field("username",
       tstring_struct)>>),
   user_contact_old2_struct |->
     Struct(<<Field("sname", <<"Computed", "user_contact_old2">>),
       Field("signature", <<"Const", <<51891, 24088>>>>), Field("id",
       <<"Int32ul">>), Field("first_name", tstring_struct),
       Field("last_name", tstring_struct), Field("username", tstring_struct),
       Field("access_hash", <<"Int64ul">>), Field("phone", tstring_struct),
       Field("photo", <<"structures", "user_profile_photo_structures",
       "photo">>), Field("status", <<"structures", "user_status_structures",
       "status">>)>>),
   user_layer65_struct |->
     Struct(<<Field("sname", <<"Computed", "user_layer65">>),
       Field("signature", <<"Const", <<53517, 38810>>>>), Field("flags",
       <<"FlagsEnum_Int32ul", [has_access_hash |-> 0, has_first_name |-> 1,
       has_last_name |-> 2, has_username |-> 3, has_phone |-> 4,
       has_profile_photo |-> 5, has_status |-> 6, is_self |-> 10,
       is_contact |-> 11, is_mutual_contact |-> 12, is_deleted |-> 13,
       is_bot |-> 14, is_bot_chat_history |-> 15, is_bot_no_chats |-> 16,
       is_verified |-> 17, is_restricted |-> 18,
       has_bot_inline_placeholder |-> 19, has_min |-> 20,
       is_bot_inline_geo |-> 21]>>), Field("id", <<"Int32ul">>),
       Field("access_hash", <<"If", "has_access_hash", <<"Int64ul">>>>),
       Field("first_name", <<"If", "has_first_name", tstring_struct>>),
       Field("last_name", <<"If", "has_last_name", tstring_struct>>),
       Field("username", <<"If", "has_username", tstring_struct>>),
       Field("phone", <<"If", "has_phone", tstring_struct>>), Field("photo",
       <<"If", "has_profile_photo", <<"structures",
       "user_profile_photo_structures", "photo">>>>), Field("status", <<"If",
       "has_status", <<"structures", "user_status_structures", "status">>>>),
       Field("bot_info_version", <<"If", "is_bot", <<"Int32ul">>>>),
       Field("restriction_reason", <<"If", "is_restricted",
       tstring_struct>>), Field("bot_inline_placeholder", <<"If",
       "has_bot_inline_placeholder", tstring_struct>>)>>),
   user_request_old2_struct |->
     Struct(<<Field("sname", <<"Computed", "user_request_old2">>),
       Field("signature", <<"Const", <<55756, 50415>>>>), Field("id",
       <<"Int32ul">>), Field("first_name", tstring_struct),
       Field("last_name", tstring_struct), Field("username", tstring_struct),
       Field("access_hash", <<"Int64ul">>), Field("phone", tstring_struct),
       Field("photo", <<"structures", "user_profile_photo_structures",
       "photo">>), Field("status", <<"structures", "user_status_structures",
       "status">>)>>),
   user_contact_old_struct |->
     Struct(<<Field("sname", <<"Computed", "user_contact_old">>),
       Field("signature", <<"Const", <<62203, 33561>>>>), Field("id",
       <<"Int32ul">>), Field("first_name", tstring_struct),
       Field("last_name", tstring_struct), Field("access_hash",
       <<"Int64ul">>), Field("phone", tstring_struct), Field("photo",
       <<"structures", "user_profile_photo_structures", "photo">>),
       Field("status", <<"structures", "user_status_structures",
       "status">>)>>),
   user_foreign_old2_struct |->
     Struct(<<Field("sname", <<"Computed", "user_foreign_old2">>),
       Field("signature", <<"Const", <<1884, 63400>>>>), Field("id",
       <<"Int32ul">>), Field("first_name", tstring_struct),
       Field("last_name", tstring_struct), Field("username", tstring_struct),
       Field("access_hash", <<"Int64ul">>), Field("photo", <<"structures",
       "user_profile_photo_structures", "photo">>), Field("status",
       <<"structures", "user_status_structures", "status">>)>>),
   user_self_old3_struct |->
     Struct(<<Field("sname", <<"Computed", "user_self_old3">>),
       Field("signature", <<"Const", <<7264, 58888>>>>), Field("id",
       <<"Int32ul">>), Field("first_name", tstring_struct),
       Field("last_name", tstring_struct), Field("username", tstring_struct),
       Field("phone", tstring_struct), Field("photo", <<"structures",
       "user_profile_photo_structures", "photo">>), Field("status",
       <<"structures", "user_status_structures", "status">>)>>),
   user_empty_struct |-> user_empty_struct,
   user_old_struct |->
     Struct(<<Field("sname", <<"Computed", "user_old">>), Field("signature",
       <<"Const", <<8932, 36978>>>>), Field("flags", <<"FlagsEnum_Int32ul",
       [has_access_hash |-> 0, has_first_name |-> 1, has_last_name |-> 2,
       has_username |-> 3, has_phone |-> 4, has_profile_photo |-> 5,
       has_status |-> 6, is_self |-> 10, is_contact |-> 11,
       is_mutual_contact |-> 12, is_deleted |-> 13, is_bot |-> 14,
       is_bot_chat_history |-> 15, is_bot_no_chats |-> 16,
       is_verified |-> 17, is_explicit_content |-> 18]>>), Field("id",
       <<"Int32ul">>), Field("access_hash", <<"If", "has_access_hash",
       <<"Int64ul">>>>), Field("first_name", <<"If", "has_first_name",
       tstring_struct>>), Field("last_name", <<"If", "has_last_name",
       tstring_struct>>), Field("username", <<"If", "has_username",
       tstring_struct>>), Field("phone", <<"If", "has_phone",
       tstring_struct>>), Field("photo", <<"If", "has_profile_photo",
       <<"structures", "user_profile_photo_structures", "photo">>>>),
       Field("status", <<"If", "has_status", <<"structures",
       "user_status_structures", "status">>>>), Field("bot_info_version",
       <<"If", "is_bot", <<"Int32ul">>>>)>>),
   user_request_old_struct |->
     Struct(<<Field("sname", <<"Computed", "user_request_old">>),
       Field("signature", <<"Const", <<8936, 52912>>>>), Field("id",
       <<"Int32ul">>), Field("first_name", tstring_struct),
       Field("last_name", tstring_struct), Field("access_hash",
       <<"Int64ul">>), Field("phone", tstring_struct), Field("photo",
       <<"structures", "user_profile_photo_structures", "photo">>),
       Field("status", <<"structures", "user_status_structures",
       "status">>)>>),
   user_foreign_old_struct |->
     Struct(<<Field("sname", <<"Computed", "user_foreign_old">>),
       Field("signature", <<"Const", <<21012, 51357>>>>), Field("id",
       <<"Int32ul">>), Field("first_name", tstring_struct),
       Field("last_name", tstring_struct), Field("access_hash",
       <<"Int64ul">>), Field("photo", <<"structures",
       "user_profile_photo_structures", "photo">>), Field("status",
       <<"structures", "user_status_structures", "status">>)>>),
   user_self_old2_struct |->
     Struct(<<Field("sname", <<"Computed", "user_self_old2">>),
       Field("signature", <<"Const", <<28679, 46161>>>>), Field("id",
       <<"Int32ul">>), Field("first_name", tstring_struct),
       Field("last_name", tstring_struct), Field("username", tstring_struct),
       Field("phone", tstring_struct), Field("photo", <<"structures",
       "user_profile_photo_structures", "photo">>), Field("status",
       <<"structures", "user_status_structures", "status">>),
       Field("inactive", tbool_struct)>>),
   user_self_old_struct |->
     Struct(<<Field("sname", <<"Computed", "user_self_old">>),
       Field("signature", <<"Const", <<29189, 13804>>>>), Field("id",
       <<"Int32ul">>), Field("first_name", tstring_struct),
       Field("last_name", tstring_struct), Field("phone", tstring_struct),
       Field("photo", <<"structures", "user_profile_photo_structures",
       "photo">>), Field("status", <<"structures", "user_status_structures",
       "status">>), Field("inactive", tbool_struct)>>),
   user_struct |-> user_struct,
   user_profile_photo_empty_struct |-> user_profile_photo_empty_struct,
   user_profile_photo_layer97_struct |->
     Struct(<<Field("sname", <<"Computed", "user_profile_photo_layer97">>),
       Field("signature", <<"Const", <<54617, 55496>>>>), Field("photo_id",
       <<"Int64ul">>), Field("photo_small", <<"structures",
       "file_location_structures", "photo_small">>), Field("photo_big",
       <<"structures", "file_location_structures", "photo_big">>)>>),
   user_profile_photo_old_struct |->
     Struct(<<Field("sname", <<"Computed", "user_profile_photo_old">>),
       Field("signature", <<"Const", <<39181, 5267>>>>), Field("photo_small",
       <<"structures", "file_location_structures", "photo_small">>),
       Field("photo_big", <<"structures", "file_location_structures",
       "photo_big">>)>>),
   user_profile_photo_layer115_struct |->
     Struct(<<Field("sname", <<"Computed", "user_profile_photo_layer115">>),
       Field("signature", <<"Const", <<60631, 23948>>>>), Field("photo_id",
       <<"Int64ul">>), Field("photo_small", <<"structures",
       "file_location_structures", "photo_small">>), Field("photo_big",
       <<"structures", "file_location_structures", "photo_big">>),
       Field("dc_id", <<"Int32ul">>)>>),
   user_profile_photo_struct |->
     Struct(<<Field("sname", <<"Computed", "user_profile_photo">>),
       Field("signature", <<"Const", <<27091, 43814>>>>), Field("flags",
       <<"FlagsEnum_Int32ul", [has_video |-> 0]>>), Field("photo_id",
       <<"Int64ul">>), Field("photo_small", <<"structures",
       "file_location_structures", "photo_small">>), Field("photo_big",
       <<"structures", "file_location_structures", "photo_big">>),
       Field("dc_id", <<"Int32ul">>)>>),
   user_status_recently_struct |-> user_status_recently_struct,
   user_status_online_struct |-> user_status_online_struct,
   user_status_offline_struct |-> user_status_offline_struct,
   user_status_last_week_struct |-> user_status_last_week_struct,
   user_status_last_month_struct |-> user_status_last_month_struct,
   user_status_empty_struct |-> user_status_empty_struct,
   video_empty_layer45_struct |->
     Struct(<<Field("sname", <<"Computed", "video_empty_layer45">>),
       Field("signature", <<"Const", <<49414, 22696>>>>), Field("id",
       <<"Int64ul">>)>>),
   video_old3_struct |->
     Struct(<<Field("sname", <<"Computed", "video_old3">>),
       Field("signature", <<"Const", <<61087, 19021>>>>), Field("id",
       <<"Int64ul">>), Field("access_hash", <<"Int64ul">>), Field("user_id",
       <<"Int32ul">>), Field("date", ttimestamp_struct), Field("duration",
       <<"Int32ul">>), Field("size", <<"Int32ul">>), Field("thumb",
       <<"structures", "photo_size_structures", "thumb">>), Field("dc_id",
       <<"Int32ul">>), Field("w", <<"Int32ul">>), Field("h",
       <<"Int32ul">>)>>),
   video_layer45_struct |->
     Struct(<<Field("sname", <<"Computed", "video_layer45">>),
       Field("signature", <<"Const", <<63272, 34771>>>>), Field("id",
       <<"Int64ul">>), Field("access_hash", <<"Int64ul">>), Field("date",
       ttimestamp_struct), Field("duration", <<"Int32ul">>),
       Field("mime_type", tstring_struct), Field("size", <<"Int32ul">>),
       Field("thumb", <<"structures", "photo_size_structures", "thumb">>),
       Field("dc_id", <<"Int32ul">>), Field("w", <<"Int32ul">>), Field("h",
       <<"Int32ul">>)>>),
   video_old2_struct |->
     Struct(<<Field("sname", <<"Computed", "video_old2">>),
       Field("signature", <<"Const", <<14479, 41873>>>>), Field("id",
       <<"Int64ul">>), Field("access_hash", <<"Int64ul">>), Field("user_id",
       <<"Int32ul">>), Field("date", ttimestamp_struct), Field("caption",
       tstring_struct), Field("duration", <<"Int32ul">>), Field("mime_type",
       tstring_struct), Field("size", <<"Int32ul">>), Field("thumb",
       <<"structures", "photo_size_structures", "thumb">>), Field("dc_id",
       <<"Int32ul">>), Field("w", <<"Int32ul">>), Field("h",
       <<"Int32ul">>)>>),
   video_encrypted_struct |->
     Struct(<<Field("sname", <<"Computed", "video_encrypted">>),
       Field("signature", <<"Const", <<21845, 21843>>>>), Field("id",
       <<"Int64ul">>), Field("access_hash", <<"Int64ul">>), Field("user_id",
       <<"Int32ul">>), Field("date", ttimestamp_struct), Field("caption",
       tstring_struct), Field("duration", <<"Int32ul">>), Field("size",
       <<"Int32ul">>), Field("thumb", <<"structures",
       "photo_size_structures", "thumb">>), Field("dc_id", <<"Int32ul">>),
       Field("w", <<"Int32ul">>), Field("h", <<"Int32ul">>), Field("key",
       tbytes_struct), Field("iv", tbytes_struct)>>),
   video_old_struct |->
     Struct(<<Field("sname", <<"Computed", "video_old">>), Field("signature",
       <<"Const", <<23044, 42143>>>>), Field("id", <<"Int64ul">>),
       Field("access_hash", <<"Int64ul">>), Field("user_id", <<"Int32ul">>),
       Field("date", ttimestamp_struct), Field("caption", tstring_struct),
       Field("duration", <<"Int32ul">>), Field("size", <<"Int32ul">>),
       Field("thumb", <<"structures", "photo_size_structures", "thumb">>),
       Field("dc_id", <<"Int32ul">>), Field("w", <<"Int32ul">>), Field("h",
       <<"Int32ul">>)>>),
   video_size_struct |->
     Struct(<<Field("sname", <<"Computed", "video_size">>),
       Field("signature", <<"Const", <<59441, 50518>>>>), Field("flags",
       <<"FlagsEnum_Int32ul", [has_video_start_ts |-> 0]>>), Field("type",
       tstring_struct), Field("location", <<"structures",
       "file_location_structures", "location">>), Field("w", <<"Int32ul">>),
       Field("h", <<"Int32ul">>), Field("size", <<"Int32ul">>),
       Field("video_start_ts", <<"If", "has_video_start_ts",
       <<"Float64b">>>>)>>),
   video_size_layer115_struct |->
     Struct(<<Field("sname", <<"Computed", "video_size_layer115">>),
       Field("signature", <<"Const", <<17243, 47495>>>>), Field("type",
       tstring_struct), Field("location", <<"structures",
       "file_location_structures", "location">>), Field("w", <<"Int32ul">>),
       Field("h", <<"Int32ul">>), Field("size", <<"Int32ul">>)>>),
   wall_paper_settings_layer106_struct |->
     Struct(<<Field("sname", <<"Computed", "wall_paper_settings_layer106">>),
       Field("signature", <<"Const", <<41263, 16568>>>>), Field("flags",
       <<"FlagsEnum_Int32ul", [has_background_color |-> 0, is_blur |-> 1,
       is_motion |-> 2, has_intensity |-> 3]>>), Field("background_color",
       <<"If", "has_background_color", <<"Int32ul">>>>), Field("intensity",
       <<"If", "has_intensity", <<"Int32ul">>>>)>>),
   wall_paper_settings_struct |->
     Struct(<<Field("sname", <<"Computed", "wall_paper_settings">>),
       Field("signature", <<"Const", <<1288, 27896>>>>), Field("flags",
       <<"FlagsEnum_Int32ul", [has_background_color |-> 0, is_blur |-> 1,
       is_motion |-> 2, has_intensity |-> 3,
       has_second_background_color |-> 4]>>), Field("background_color",
       <<"If", "has_background_color", <<"Int32ul">>>>),
       Field("second_background_color", <<"If",
       "has_second_background_color", <<"Int32ul">>>>), Field("intensity",
       <<"If", "has_intensity", <<"Int32ul">>>>), Field("rotation", <<"If",
       "has_second_background_color", <<"Int32ul">>>>)>>),
   wall_paper_no_file_struct |->
     Struct(<<Field("sname", <<"Computed", "wall_paper_no_file">>),
       Field("signature", <<"Const", <<35572, 2853>>>>), Field("flags",
       <<"FlagsEnum_Int32ul", [is_default |-> 1,
       has_wallpaper_settings |-> 2, is_dark |-> 4]>>),
       Field("wallpaper_settings", <<"If", "has_wallpaper_settings",
       <<"structures", "wall_paper_settings_structures",
       "wall_paper_settings">>>>)>>),
   wall_paper_layer94_struct |->
     Struct(<<Field("sname", <<"Computed", "wall_paper_layer94">>),
       Field("signature", <<"Const", <<61519, 37356>>>>), Field("id",
       <<"Int64ul">>), Field("flags", <<"FlagsEnum_Int32ul",
       [is_creator |-> 0, is_default |-> 1]>>), Field("access_hash",
       <<"Int64ul">>), Field("slug", tstring_struct), Field("document",
       <<"structures", "document_structures", "document">>)>>),
   wall_paper_struct |->
     Struct(<<Field("sname", <<"Computed", "wall_paper">>),
       Field("signature", <<"Const", <<42039, 50157>>>>), Field("id",
       <<"Int64ul">>), Field("flags", <<"FlagsEnum_Int32ul", [creator |-> 0,
       default |-> 1, wallpaper_settings |-> 2, pattern |-> 3,
       dark |-> 4]>>), Field("access_hash", <<"Int64ul">>), Field("slug",
       tstring_struct), Field("document", <<"structures",
       "document_structures", "document">>), Field("wallpaper_settings",
       <<"If", "wallpaper_settings", <<"structures",
       "wall_paper_settings_structures", "wall_paper_settings">>>>)>>),
   web_document_layer81_struct |->
     Struct(<<Field("sname", <<"Computed", "web_document_layer81">>),
       Field("signature", <<"Const", <<50714, 52184>>>>), Field("url",
       tstring_struct), Field("access_hash", <<"Int64ul">>), Field("size",
       <<"Int32ul">>), Field("mime_type", tstring_struct),
       Field("_vector_sig", <<"Const", <<7349, 50197>>>>),
       Field("document_attributes_num", <<"Int32ul">>),
       Field("document_attributes", <<"Array", "document_attributes_num",
       <<"structures", "document_attribute_structures",
       "document_attribute">>>>)>>),
   web_document_no_proxy_struct |->
     Struct(<<Field("sname", <<"Computed", "web_document_no_proxy">>),
       Field("signature", <<"Const", <<63944, 48326>>>>), Field("url",
       tstring_struct), Field("size", <<"Int32ul">>), Field("mime_type",
       tstring_struct), Field("_vector_sig", <<"Const", <<7349, 50197>>>>),
       Field("document_attributes_num", <<"Int32ul">>),
       Field("document_attributes", <<"Array", "document_attributes_num",
       <<"structures", "document_attribute_structures",
       "document_attribute">>>>)>>),
   web_document_struct |->
     Struct(<<Field("sname", <<"Computed", "web_document">>),
       Field("signature", <<"Const", <<7255, 3793>>>>), Field("url",
       tstring_struct), Field("access_hash", <<"Int64ul">>), Field("size",
       <<"Int32ul">>), Field("mime_type", tstring_struct),
       Field("_vector_sig", <<"Const", <<7349, 50197>>>>),
       Field("document_attributes_num", <<"Int32ul">>),
       Field("document_attributes", <<"Array", "document_attributes_num",
       <<"structures", "document_attribute_structures",
       "document_attribute">>>>)>>),
   web_page_attribute_theme_struct |->
     Struct(<<Field("sname", <<"Computed", "web_page_attribute_theme">>),
       Field("signature", <<"Const", <<21685, 26135>>>>), Field("flags",
       <<"FlagsEnum_Int32ul", [has_documents |-> 0,
       has_theme_settings |-> 1]>>), Field("documents", <<"If",
       "has_documents", Struct(<<Field("_vector_sig", <<"Const", <<7349,
       50197>>>>), Field("documents_num", <<"Int32ul">>),
       Field("documents_array", <<"Array", "documents_num", <<"structures",
       "document_structures", "document">>>>)>>)>>), Field("theme_settings",
       <<"If", "has_theme_settings", <<"self",
       "theme_settings_struct">>>>)>>),
   web_page_not_modified_struct |->
     Struct(<<Field("sname", <<"Computed", "web_page_not_modified">>),
       Field("signature", <<"Const", <<29457, 51729>>>>), Field("flags",
       <<"FlagsEnum_Int32ul", [has_cached_page_views |-> 0]>>),
       Field("cached_page_views", <<"If", "has_cached_page_views",
       <<"Int32ul">>>>)>>),
   web_page_not_modified_layer110_struct |->
     Struct(<<Field("sname", <<"Computed",
       "web_page_not_modified_layer110">>), Field("signature", <<"Const",
       <<34180, 38003>>>>)>>),
   web_page_old_struct |->
     Struct(<<Field("sname", <<"Computed", "web_page_old">>),
       Field("signature", <<"Const", <<41758, 41141>>>>), Field("flags",
       <<"FlagsEnum_Int32ul", [has_type |-> 0, has_site_name |-> 1,
       has_title |-> 2, has_description |-> 3, has_photo |-> 4,
       has_embed_url |-> 5, has_embed_media |-> 6, has_duration |-> 7,
       has_author |-> 8]>>), Field("id", <<"Int64ul">>), Field("url",
       tstring_struct), Field("display_url", tstring_struct), Field("type",
       <<"If", "has_type", tstring_struct>>), Field("site_name", <<"If",
       "has_site_name", tstring_struct>>), Field("title", <<"If",
       "has_title", tstring_struct>>), Field("description", <<"If",
       "has_description", tstring_struct>>), Field("photo", <<"If",
       "has_photo", <<"structures", "photo_structures", "photo">>>>),
       Field("embed_url", <<"If", "has_embed_url", tstring_struct>>),
       Field("embed_type", <<"If", "has_embed_url", tstring_struct>>),
       Field("embed_width", <<"If", "has_embed_media", <<"Int32ul">>>>),
       Field("embed_height", <<"If", "has_embed_media", <<"Int32ul">>>>),
       Field("duration", <<"If", "has_duration", <<"Int32ul">>>>),
       Field("author", <<"If", "has_author", tstring_struct>>)>>),
   web_page_pending_struct |->
     Struct(<<Field("sname", <<"Computed", "web_page_pending">>),
       Field("signature", <<"Const", <<50566, 55836>>>>), Field("id",
       <<"Int64ul">>), Field("date", <<"Int32ul">>)>>),
   web_page_layer58_struct |->
     Struct(<<Field("sname", <<"Computed", "web_page_layer58">>),
       Field("signature", <<"Const", <<51842, 3799>>>>), Field("flags",
       <<"FlagsEnum_Int32ul", [has_type |-> 0, has_site_name |-> 1,
       has_title |-> 2, has_description |-> 3, has_photo |-> 4,
       has_embed_url |-> 5, has_embed_media |-> 6, has_duration |-> 7,
       has_author |-> 8, has_document |-> 9]>>), Field("id", <<"Int64ul">>),
       Field("url", tstring_struct), Field("display_url", tstring_struct),
       Field("type", <<"If", "has_type", tstring_struct>>),
       Field("site_name", <<"If", "has_site_name", tstring_struct>>),
       Field("title", <<"If", "has_title", tstring_struct>>),
       Field("description", <<"If", "has_description", tstring_struct>>),
       Field("photo", <<"If", "has_photo", <<"structures",
       "photo_structures", "photo">>>>), Field("embed_url", <<"If",
       "has_embed_url", tstring_struct>>), Field("embed_type", <<"If",
       "has_embed_url", tstring_struct>>), Field("embed_width", <<"If",
       "has_embed_media", <<"Int32ul">>>>), Field("embed_height", <<"If",
       "has_embed_media", <<"Int32ul">>>>), Field("duration", <<"If",
       "has_duration", <<"Int32ul">>>>), Field("author", <<"If",
       "has_author", tstring_struct>>), Field("document", <<"If",
       "has_document", <<"structures", "document_structures",
       "document">>>>)>>),
   web_page_url_pending_struct |->
     Struct(<<Field("sname", <<"Computed", "web_page_url_pending">>),
       Field("signature", <<"Const", <<54298, 20839>>>>), Field("url",
       tstring_struct)>>),
   web_page_empty_struct |->
     Struct(<<Field("sname", <<"Computed", "web_page_empty">>),
       Field("signature", <<"Const", <<60180, 30696>>>>), Field("id",
       <<"Int64ul">>)>>),
   web_page_layer104_struct |->
     Struct(<<Field("sname", <<"Computed", "web_page_layer104">>),
       Field("signature", <<"Const", <<24327, 46268>>>>), Field("flags",
       <<"FlagsEnum_Int32ul", [has_type |-> 0, has_site_name |-> 1,
       has_title |-> 2, has_description |-> 3, has_photo |-> 4,
       has_embed_url |-> 5, has_embed_media |-> 6, has_duration |-> 7,
       has_author |-> 8, has_document |-> 9, is_cached |-> 10]>>),
       Field("id", <<"Int64ul">>), Field("url", tstring_struct),
       Field("display_url", tstring_struct), Field("hash", <<"Int32ul">>),
       Field("type", <<"If", "has_type", tstring_struct>>),
       Field("site_name", <<"If", "has_site_name", tstring_struct>>),
       Field("title", <<"If", "has_title", tstring_struct>>),
       Field("description", <<"If", "has_description", tstring_struct>>),
       Field("photo", <<"If", "has_photo", <<"structures",
       "photo_structures", "photo">>>>), Field("embed_url", <<"If",
       "has_embed_url", tstring_struct>>), Field("embed_type", <<"If",
       "has_embed_url", tstring_struct>>), Field("embed_width", <<"If",
       "has_embed_media", <<"Int32ul">>>>), Field("embed_height", <<"If",
       "has_embed_media", <<"Int32ul">>>>), Field("duration", <<"If",
       "has_duration", <<"Int32ul">>>>), Field("author", <<"If",
       "has_author", tstring_struct>>), Field("document", <<"If",
       "has_document", <<"structures", "document_structures",
       "document">>>>), Field("cached_page", <<"If", "is_cached",
       <<"structures", "page_structures", "cached_page">>>>)>>),
   web_page_layer107_struct |->
     Struct(<<Field("sname", <<"Computed", "web_page_layer107">>),
       Field("signature", <<"Const", <<64100, 57714>>>>), Field("flags",
       <<"FlagsEnum_Int32ul", [type |-> 0, site_name |-> 1, title |-> 2,
       description |-> 3, photo |-> 4, embed_url |-> 5, embed_media |-> 6,
       duration |-> 7, author |-> 8, document |-> 9, cached |-> 10,
       has_webpage_attr_theme |-> 11]>>), Field("id", <<"Int64ul">>),
       Field("url", tstring_struct), Field("display_url", tstring_struct),
       Field("hash", <<"Int32ul">>), Field("type", <<"If", "type",
       tstring_struct>>), Field("site_name", <<"If", "site_name",
       tstring_struct>>), Field("title", <<"If", "title", tstring_struct>>),
       Field("description", <<"If", "description", tstring_struct>>),
       Field("photo", <<"If", "photo", <<"structures", "photo_structures",
       "photo">>>>), Field("embed_url", <<"If", "embed_url",
       tstring_struct>>), Field("embed_type", <<"If", "embed_url",
       tstring_struct>>), Field("embed_width", <<"If", "embed_media",
       <<"Int32ul">>>>), Field("embed_height", <<"If", "embed_media",
       <<"Int32ul">>>>), Field("duration", <<"If", "duration",
       <<"Int32ul">>>>), Field("author", <<"If", "author", tstring_struct>>),
       Field("document", <<"If", "document", <<"structures",
       "document_structures", "document">>>>),
       Field("webpage_attribute_theme", <<"If", "has_webpage_attr_theme",
       Struct(<<Field("_vector_sig", <<"Const", <<7349, 50197>>>>),
       Field("documents_num", <<"Int32ul">>), Field("documents_array",
       <<"Array", "documents_num", <<"structures", "document_structures",
       "document">>>>)>>)>>), Field("cached_page", <<"If", "cached",
       <<"structures", "page_structures", "cached_page">>>>)>>),
   web_page_struct |->
     Struct(<<Field("sname", <<"Computed", "web_page">>), Field("signature",
       <<"Const", <<59548, 17842>>>>), Field("flags", <<"FlagsEnum_Int32ul",
       [type |-> 0, site_name |-> 1, title |-> 2, description |-> 3,
       photo |-> 4, embed_url |-> 5, embed_media |-> 6, duration |-> 7,
       author |-> 8, document |-> 9, cached |-> 10,
       webpage_attr_theme |-> 12]>>), Field("id", <<"Int64ul">>),
       Field("url", tstring_struct), Field("display_url", tstring_struct),
       Field("hash", <<"Int32ul">>), Field("type", <<"If", "type",
       tstring_struct>>), Field("site_name", <<"If", "site_name",
       tstring_struct>>), Field("title", <<"If", "title", tstring_struct>>),
       Field("description", <<"If", "description", tstring_struct>>),
       Field("photo", <<"If", "photo", <<"structures", "photo_structures",
       "photo">>>>), Field("embed_url", <<"If", "embed_url",
       tstring_struct>>), Field("embed_type", <<"If", "embed_url",
       tstring_struct>>), Field("embed_width", <<"If", "embed_media",
       <<"Int32ul">>>>), Field("embed_height", <<"If", "embed_media",
       <<"Int32ul">>>>), Field("duration", <<"If", "duration",
       <<"Int32ul">>>>), Field("author", <<"If", "author", tstring_struct>>),
       Field("document", <<"If", "document", <<"structures",
       "document_structures", "document">>>>), Field("cached_page", <<"If",
       "cached", <<"structures", "page_structures", "cached_page">>>>),
       Field("webpage_attribute_theme", <<"If", "webpage_attr_theme",
       Struct(<<Field("_vector_sig", <<"Const", <<7349, 50197>>>>),
       Field("webpage_attribute_num", <<"Int32ul">>),
       Field("webpage_attribute_array", <<"Array", "webpage_attribute_num",
       <<"self", "web_page_attribute_theme_struct">>>>)>>)>>)>>)]

\* blob_parser(self): the exception the decoder method raises while it
\* builds its Struct. In message_layer68_struct and
\* message_service_layer48_struct the branches given to IfThenElse are
\* 'from_id_adjusted' / this.to_id.user_id and 'from_id_adjusted' /
\* this.to_id.channel_id * -1: a string divided by an expression of 'this'
\* is an expression (BinExpr), not a Construct, and IfThenElse.__init__
\* reads the attribute flagbuildnone of both branches.
blob_parser_raised(blob_parser) ==
  IF blob_parser \in {"message_layer68_struct",
                      "message_service_layer48_struct"}
  THEN "AttributeError"
  ELSE "None"

(***************************************************************************)
(* construct: parsing                                                      *)
(***************************************************************************)
\* An Int32ul less one.
Less(count) ==
  IF count[2] > 0 THEN <<count[1], count[2] - 1>>
  ELSE <<count[1] - 1, 65535>>

\* Array._parse after an element that gave r: the value is appended to the
\* list.
Array_add_front(st, r) ==
  IF r.err # "None"
  THEN [err |-> r.err, off |-> r.off, val |-> None, log |-> st.log \o r.log]
  ELSE [err |-> "None", off |-> r.off, val |-> <<r.val>> \o st.val,
        log |-> st.log \o r.log]

Array_add(st, r) ==
  IF r.err # "None"
  THEN [err |-> r.err, off |-> r.off, val |-> None, log |-> st.log \o r.log]
  ELSE [err |-> "None", off |-> r.off, val |-> Append(st.val, r.val),
        log |-> st.log \o r.log]

RECURSIVE parse(_, _, _, _)
RECURSIVE Struct_parse(_, _, _, _)
RECURSIVE Array_parse(_, _, _, _, _)
\* Struct._parse from field i on: the fields are parsed in order, each with
\* the Container of the fields before it; an exception ends the parse.
Struct_parse(fields, i, bytes, st) ==
  CHOOSE parsed \in
    {IF context.err # "None" \/ i > Len(fields) THEN context
     ELSE Struct_parse(fields, i + 1, bytes,
                       Struct_add(context, fields[i],
                                  parse(fields[i].subcon, bytes, context.off,
                                        context.val))) :
       context \in {st}} : TRUE

\* Array._parse with count elements still to parse (count an Int32ul)
Array_parse(subcon, bytes, count, this, st) ==
  CHOOSE parsed \in
    {IF list.err # "None" \/ n = <<0, 0>> THEN list
     ELSE Array_parse(subcon, bytes, Less(n), this,
                      Array_add(list, parse(subcon, bytes, list.off, this))) :
       list \in {st}, n \in {count}} : TRUE

\* subcon._parse(stream, context) at offset off, this being the Container
\* of the enclosing Struct so far.
parse_subcon(subcon, bytes, off, this) ==
  CASE subcon[1] = "Struct" -> Struct_parse(subcon[2], 1, bytes, Context(off))
    [] subcon[1] = "Byte" -> Byte(bytes, off)
    [] subcon[1] = "Int32ul" -> Int32ul(bytes, off)
    [] subcon[1] = "Int64ul" -> Int64ul(bytes, off)
    [] subcon[1] = "GreedyBytes" -> GreedyBytes(bytes, off)
    [] subcon[1] = "Const" -> Const(Int32ul(bytes, off), subcon[2])
    [] subcon[1] = "Computed" -> Ok(off, subcon[2])
    [] subcon[1] = "Computed_int" -> Ok(off, subcon[2])
    [] subcon[1] = "Peek" -> Peek(off, parse(subcon[2], bytes, off, this))
    [] subcon[1] = "If" ->
         IF "flags" \notin DOMAIN this THEN Fail("KeyError", off)
         ELSE IF subcon[2] \notin DOMAIN this.flags
         THEN Fail("KeyError", off)
         ELSE IF this.flags[subcon[2]]
         THEN Present(parse(subcon[3], bytes, off, this))
         ELSE Ok(off, None)
    [] subcon[1] = "Switch" ->
         IF this[subcon[2]] # None /\ this[subcon[2]][1] \in DOMAIN subcon[3]
         THEN parse(subcon[3][this[subcon[2]][1]], bytes, off, this)
         ELSE Ok(off, None)
    [] subcon[1] = "Array" ->
         Array_parse(subcon[3], bytes, this[subcon[2]], this, Ok(off, <<>>))
    [] subcon[1] = "FlagsEnum" /\ subcon[2] = "message_struct" ->
         message_struct_flags_enum(Int32ul(bytes, off))
    [] subcon[1] = "FlagsEnum" /\ subcon[2] = "user_struct" ->
         user_struct_flags_enum(Int32ul(bytes, off))
    [] subcon[1] = "FlagsEnum_Int32ul" ->
         FlagsEnum(Int32ul(bytes, off), subcon[2])
    [] subcon[1] = "FlagsEnum_masks" ->
         FlagsEnum_masks(Int32ul(bytes, off), subcon[2])
    [] subcon[1] = "Float64b" -> Float64b(bytes, off)
    [] subcon[1] = "Terminated" -> Terminated(bytes, off)
    [] subcon[1] = "IfThenElse" ->
         IF this[subcon[2]] \notin {None, Some(<<0, 0>>)}
         THEN parse(subcon[3], bytes, off, this)
         ELSE parse(subcon[4], bytes, off, this)
    [] subcon[1] \in {"self", "LazyBound"} ->
         IF blob_parser_raised(subcon[2]) # "None"
         THEN Fail(blob_parser_raised(subcon[2]), off)
         ELSE parse(tblob[subcon[2]], bytes, off, this)
    [] subcon[1] = "structures" ->
         parse(structures(subcon[2], subcon[3]), bytes, off, this)
    [] subcon[1] = "Bytes" -> Bytes(bytes, off, this[subcon[2]])
    [] subcon[1] = "Hex" -> parse(subcon[2], bytes, off, this)
    [] subcon[1] = "prefix_pl" -> prefix_pl(bytes, off, this)
    [] subcon[1] = "prefix_len" -> prefix_len(off, this)
    [] subcon[1] = "decode_tstring" ->
         Computed_string(off, decode_tstring(this[subcon[2]]))
    [] subcon[1] = "tstring_padding" ->
         If_Padding(bytes, off,
                    tstring_padding(this._check[1], this[subcon[2]]))
    [] subcon[1] = "tbytes_padding" ->
         If_Padding(bytes, off,
                    tbytes_padding(this._check[1], this[subcon[2]]))
    [] subcon[1] = "tbool_value" -> tbool_value(off, this)
    [] subcon[1] = "utc_isoformat" ->
         Ok(off, utc_isoformat(this[subcon[2]]))

\* The same, the subcon, the offset and the Container being evaluated once.
parse(con, bytes, at, context) ==
  CHOOSE parsed \in {parse_subcon(subcon, bytes, off, this) :
                       subcon \in {con}, off \in {at}, this \in {context}} :
    TRUE

(***************************************************************************)
(* Dispatcher                                                              *)
(***************************************************************************)
\* blob_parser(self): the Struct the decoder method returns
blob_parser_struct(blob_parser) == tblob[blob_parser]

\* blob_parser(self).parse(data)
blob_parse(blob_parser, bytes) ==
  IF blob_parser_raised(blob_parser) # "None"
  THEN Fail(blob_parser_raised(blob_parser), 0)
  ELSE parse(blob_parser_struct(blob_parser), bytes, 0, <<>>)

\* 'signature in self.callbacks' and 'self.callbacks[signature]': what is
\* found and the dictionary afterwards.
callbacks_lookup_pop(cb, signature) ==
  [found |-> signature \in DOMAIN cb,
   entry |-> IF signature \in DOMAIN cb THEN cb[signature] ELSE None,
   callbacks |-> [s \in DOMAIN cb \ {signature} |-> cb[s]]]

callbacks_lookup(cb, signature) ==
  [found |-> signature \in DOMAIN cb,
   entry |-> IF signature \in DOMAIN cb THEN cb[signature] ELSE None,
   callbacks |-> cb]

\* getattr(pblob, 'UNPARSED', None) and the warning about it.
check_unparsed(pblob, name, signature) ==
  LET unparsed == IF "UNPARSED" \in DOMAIN pblob THEN pblob.UNPARSED ELSE None
  IN IF unparsed # <<>> /\ Len(unparsed) # 0
     THEN <<LogCall("warning",
                    "Object: %s [0x%x] contains unparsed data [%d bytes], see UPARSED field",
                    <<name, hex_digits(signature), Len(unparsed)>>)>>
     ELSE <<>>

\* The comparison of len(data) with pblob._io.tell() and the error about it.
check_all_parsed_quiet(bytes, object_len, name, signature) == <<>>

check_all_parsed(bytes, object_len, name, signature) ==
  IF Len(bytes) # object_len
  THEN <<LogCall("error",
                 "Not all data parsed for object: %s [0x%x], input: %d, parsed: %d, missed: %s",
                 <<name, hex_digits(signature), Len(bytes), object_len,
                   Drop(bytes, object_len)>>)>>
  ELSE <<>>

\* What a call of parse_blob leaves: the exception it raised ("None" when it
\* returned), the value it returned (None or the Container), the decoder it
\* invoked, the stream offset the decoder ended at, the log calls made, and
\* the registry afterwards.
Result(raised, pblob, invoked, tell, log, cb) ==
  [raised |-> raised, pblob |-> pblob, invoked |-> invoked, tell |-> tell,
   log |-> log, callbacks |-> cb]

\* The rest of parse_blob once the decoder has returned pblob.
parse_blob_parsed(cb, bytes, signature, blob_parser, name, parsed) ==
  IF parsed.err # "None"
  THEN Result(parsed.err, None, blob_parser, None, parsed.log, cb)
  ELSE Result("None", Some(parsed.val), blob_parser, Some(parsed.off),
              parsed.log
                \o check_unparsed(parsed.val, name, signature)
                \o check_all_parsed(bytes, parsed.off, name, signature),
              cb)

parse_blob(cb, bytes) ==
  LET signature == from_bytes_little(Take(bytes, 4))
      look == callbacks_lookup(cb, signature)
  IN IF ~look.found
     THEN Result("None", None, "None", None,
                 <<LogCall("error", "unknown signature %s", <<hex(signature)>>)>>,
                 look.callbacks)
     ELSE IF Len(look.entry) # 3
     THEN Result("ValueError", None, "None", None, <<>>, look.callbacks)
     ELSE
       LET blob_parser == look.entry[1]
           name == look.entry[2]
           beautify == look.entry[3]
       IN IF blob_parser = "None"
          THEN Result("None", None, "None", None,
                      <<LogCall("warning", "blob '%s' [%s] not supported",
                                <<name, hex(signature)>>)>>,
                      look.callbacks)
          ELSE parse_blob_parsed(look.callbacks, bytes, signature,
                                 blob_parser, name,
                                 blob_parse(blob_parser, bytes))

(***************************************************************************)
(* Inputs                                                                  *)
(***************************************************************************)
\* Longest run of bytes that follows a tag in the raw inputs.
MaxBody == 5

\* Longest payload of the length-prefixed values given to the primitive
\* codecs: the short form ends at 253, the long form is used from 254 on.
MaxLen == 257

\* Largest number of bytes that follow the payload in those inputs.
MaxTail == 3

\* The four bytes of an unsigned 32-bit integer, little-endian.
le32(v) == <<v[2] % 256, v[2] \div 256, v[1] % 256, v[1] \div 256>>

Repeat(b, n) == [i \in 1..n |-> b]

\* n bytes: 1, 0, 0, 0, 7, 7, 7, ...
Body(n) == [i \in 1..n |-> IF i = 1 THEN 1 ELSE IF i <= 4 THEN 0 ELSE 7]

\* An unknown tag; tags with an absent decoder (three and two components);
\* a tag with a decoder and two components; user_empty;
\* input_sticker_set_animated_emoji; user_status_offline; bool_true;
\* bool_false.
RawTags ==
  {<<57005, 48879>>, <<47312, 45023>>, <<49228, 64194>>, <<18268, 56277>>,
   <<8194, 20666>>, <<647, 968>>, <<140, 28735>>, <<39282, 30133>>,
   <<48249, 38711>>}

RawInputs ==
  {le32(t) \o Body(n) : t \in RawTags, n \in 0..MaxBody}
    \cup {Take(le32(t), n) : t \in {<<57005, 48879>>, <<140, 28735>>}, n \in 0..3}

\* The encoding of a length-prefixed value: the short form below 254, the
\* 254 marker and a 3-byte length from there on, zero padding to a multiple
\* of 4.
EncodeString(payload) ==
  LET L == Len(payload)
  IN IF L < 254
     THEN <<L>> \o payload \o Repeat(0, (4 - ((1 + L) % 4)) % 4)
     ELSE <<254, L % 256, (L \div 256) % 256, L \div 65536>> \o payload
            \o Repeat(0, (4 - (L % 4)) % 4)

\* Flag words of the message inputs: none; has_from_id; has_from_id and
\* has_views; has_author and is_restricted.
MessageFlagWords == {<<0, 0>>, <<0, 256>>, <<0, 1280>>, <<65, 0>>}

\* peer_user 42, peer_channel 43 and a peer with a tag of no peer shape
MessagePeers == {le32(<<40369, 48237>>) \o le32(<<0, 42>>),
                 le32(<<48605, 58674>>) \o le32(<<0, 43>>),
                 le32(<<57005, 48879>>) \o le32(<<0, 44>>)}

\* peer_user 42 and peer_channel 43
KnownPeers == {le32(<<40369, 48237>>) \o le32(<<0, 42>>),
               le32(<<48605, 58674>>) \o le32(<<0, 43>>)}

\* "hi", a byte that is not UTF-8, and two bytes that are not UTF-8
MessageTexts == {<<104, 105>>, <<255>>, <<195, 40>>}

MessageTrailing == {<<>>, <<9>>, <<9, 9, 9, 9, 9>>}

MessageInput(f, peer, text, trailing) ==
  LET flags == message_struct_flags(f)
  IN le32(<<17708, 3685>>) \o le32(f) \o le32(<<0, 5>>)
       \o (IF flags.has_from_id THEN le32(<<0, 41>>) ELSE <<>>)
       \o peer \o le32(<<24000, 0>>) \o EncodeString(text)
       \o (IF flags.has_views THEN le32(<<0, 3>>) ELSE <<>>)
       \o (IF flags.has_author THEN EncodeString(<<97>>) ELSE <<>>)
       \o (IF flags.is_restricted
           THEN le32(<<7349, 50197>>) \o le32(<<0, 1>>)
                  \o le32(<<53362, 44212>>) \o EncodeString(<<97>>)
                  \o EncodeString(<<98, 99, 100>>) \o EncodeString(<<>>)
           ELSE <<>>)
       \o trailing

MessageInputs ==
  {MessageInput(f, p, t, u) : f \in MessageFlagWords, p \in MessagePeers,
                              t \in MessageTexts, u \in MessageTrailing}

\* The 4 bytes of a boolean: true, false, and values that are neither (0,
\* 1, an unknown tag, the tag of true with its bytes reversed).
BoolWords ==
  {<<39282, 30133>>, <<48249, 38711>>, <<0, 0>>, <<0, 1>>, <<57005, 48879>>,
   <<46453, 29337>>}

\* peer_notify_settings_layer47: mute_until 7, a sound, show_previews and
\* event_mask 9.
NotifyInput(sound, b, trailing) ==
  le32(<<36190, 4590>>) \o le32(<<0, 7>>) \o EncodeString(sound) \o le32(b)
    \o le32(<<0, 9>>) \o trailing

NotifyInputs ==
  {NotifyInput(s, b, u) : s \in {<<>>, <<104, 105>>}, b \in BoolWords,
                          u \in {<<>>, <<9>>}}

\* The ids of the user_empty inputs.
UserIds == {<<0, 0>>, <<0, 1>>, <<4660, 22136>>, <<65535, 65535>>}

\* user_empty: the tag and the id
UserEmptyInput(id) == le32(<<8194, 20666>>) \o le32(id)

\* restriction_reason: the tag and three strings
RestrictionReasonInput(platform, reason, text) ==
  le32(<<53362, 44212>>) \o EncodeString(platform) \o EncodeString(reason)
    \o EncodeString(text)

\* Buffers that are a whole record of a shape without flags: user_empty,
\* peer_notify_settings_layer47, restriction_reason and photo_stripped_size
\* (its type three bytes that are no text, its bytes one byte).
FlatInputs ==
  {UserEmptyInput(id) : id \in UserIds}
    \cup {le32(<<57520, 48174>>) \o EncodeString(<<169, 39, 226>>)
            \o EncodeString(<<39>>)}
    \cup {NotifyInput(s, b, <<>>) : s \in {<<>>, <<104, 105>>}, b \in BoolWords}
    \cup {RestrictionReasonInput(p, r, t) :
            p \in {<<>>, <<97>>}, r \in {<<98, 99, 100>>, <<98, 99, 100, 101>>},
            t \in {<<104, 105>>, <<255>>}}

\* Largest number of elements of the vectors in the inputs.
MaxVector == 3

\* The commands of the bot_command elements: "a" and "bc".
CommandNames == {<<97>>, <<98, 99>>}

\* The lists of commands of the bot_info inputs.
CommandLists ==
  UNION {[1..n -> CommandNames] : n \in 0..MaxVector}

\* bot_command: the tag, the command and the description "d"
BotCommandInput(command) ==
  le32(<<49786, 51399>>) \o EncodeString(command) \o EncodeString(<<100>>)

\* The elements of a vector one after the other, from element i on.
RECURSIVE BotCommandInputs(_, _)
BotCommandInputs(commands, i) ==
  IF i > Len(commands) THEN <<>>
  ELSE BotCommandInput(commands[i]) \o BotCommandInputs(commands, i + 1)

\* bot_info: the tag, user_id 5, the description "hi", the vector marker,
\* the count and the elements.
BotInfoInput(count, commands) ==
  le32(<<39144, 7482>>) \o le32(<<0, 5>>) \o EncodeString(<<104, 105>>)
    \o le32(<<7349, 50197>>) \o le32(<<0, count>>)
    \o BotCommandInputs(commands, 1)

\* The lists of users of the message_action_chat_create inputs: the ids 7
\* and 8.
UserLists ==
  UNION {[1..n -> {<<0, 7>>, <<0, 8>>}] : n \in 0..MaxVector}

\* message_action_chat_create: the tag, the title "T", the vector marker,
\* the count and the elements, which are Int32ul.
ChatCreateInput(users) ==
  le32(<<42595, 35738>>) \o EncodeString(<<84>>) \o le32(<<7349, 50197>>)
    \o le32(<<0, Len(users)>>)
    \o [i \in 1..(4 * Len(users)) |->
          le32(users[((i - 1) \div 4) + 1])[((i - 1) % 4) + 1]]

\* A vector of peer_user elements by itself: the marker, the count, the
\* elements.
PeerUserVectorInput(ids) ==
  le32(<<7349, 50197>>) \o le32(<<0, Len(ids)>>)
    \o (IF Len(ids) >= 1 THEN le32(<<40369, 48237>>) \o le32(ids[1]) ELSE <<>>)
    \o (IF Len(ids) >= 2 THEN le32(<<40369, 48237>>) \o le32(ids[2]) ELSE <<>>)

\* bot_info records with as many elements as the count says, with one
\* element less and with one more; message_action_chat_create records;
\* vectors of peer_user elements.
VectorInputs ==
  {BotInfoInput(Len(c), c) : c \in CommandLists}
    \cup {ChatCreateInput(u) : u \in UserLists}
    \cup {BotInfoInput(2, c) : c \in {<<<<97>>>>, <<<<97>>, <<97>>, <<97>>>>}}
    \cup {PeerUserVectorInput(ids) :
            ids \in {<<>>, <<<<0, 42>>>>, <<<<0, 42>>, <<0, 43>>>>}}

BlobInputs == RawInputs \cup MessageInputs

\* The low 16 bits of the flag words of the user inputs: every subset of
\* has_access_hash, has_first_name, has_last_name, has_username, has_phone,
\* has_profile_photo, has_status and is_bot.
UserFlagsLow ==
  {a + b + c + d + e + g + h + k :
     a \in {0, 1}, b \in {0, 2}, c \in {0, 4}, d \in {0, 8}, e \in {0, 16},
     g \in {0, 32}, h \in {0, 64}, k \in {0, 16384}}

\* The flag words of the user inputs: every subset of the 9 bits that an
\* optional field depends on (is_restricted is bit 18), with every other
\* bit clear and with every other bit set.
UserFlagWords ==
  {<<hi + n * 65531, lo + n * 49024>> :
     hi \in {0, 4}, lo \in UserFlagsLow, n \in {0, 1}}

UserStatusNames ==
  {"user_status_offline", "user_status_recently", "user_status_online"}

\* A user status on the wire: the tag, and expires 77 where the shape has
\* it.
UserStatusInput(sname) ==
  CASE sname = "user_status_offline" -> le32(<<140, 28735>>) \o le32(<<0, 77>>)
    [] sname = "user_status_online" -> le32(<<60857, 14665>>) \o le32(<<0, 77>>)
    [] sname = "user_status_recently" -> le32(<<57967, 17137>>)

\* user: the tag, the flag word, id 1000 and the optional fields the flag
\* word asks for: access_hash, first_name "F", last_name "La", username
\* "Usr", phone "1234", an empty photo, a status, bot_info_version 6 and
\* one restriction reason.
UserInput(f, status) ==
  le32(<<37764, 22721>>) \o le32(f) \o le32(<<0, 1000>>)
    \o (IF Bit(f, 0) THEN le32(<<1, 2>>) \o le32(<<3, 4>>) ELSE <<>>)
    \o (IF Bit(f, 1) THEN EncodeString(<<70>>) ELSE <<>>)
    \o (IF Bit(f, 2) THEN EncodeString(<<76, 97>>) ELSE <<>>)
    \o (IF Bit(f, 3) THEN EncodeString(<<85, 115, 114>>) ELSE <<>>)
    \o (IF Bit(f, 4) THEN EncodeString(<<49, 50, 51, 52>>) ELSE <<>>)
    \o (IF Bit(f, 5) THEN le32(<<20241, 47841>>) ELSE <<>>)
    \o (IF Bit(f, 6) THEN UserStatusInput(status) ELSE <<>>)
    \o (IF Bit(f, 14) THEN le32(<<0, 6>>) ELSE <<>>)
    \o (IF Bit(f, 18)
        THEN le32(<<7349, 50197>>) \o le32(<<0, 1>>)
               \o RestrictionReasonInput(<<97>>, <<98, 99, 100>>, <<>>)
        ELSE <<>>)

UserInputs ==
  {UserInput(f, "user_status_offline") : f \in UserFlagWords}
    \cup {UserInput(<<0, 64>>, status) : status \in UserStatusNames}
    \cup {UserInput(<<0, 127>>, status) : status \in UserStatusNames}

\* An encrypted_chat_requested record with flag word f; folder_id is
\* encoded when bit 0 of f is set.
EncryptedChatRequestedInputs ==
  {le32(<<25201, 35458>>) \o le32(f)
     \o (IF Bit(f, 0) THEN le32(<<0, 5>>) ELSE <<>>)
     \o le32(<<0, 7>>) \o le32(<<1, 2>>) \o le32(<<3, 4>>)
     \o le32(<<24000, 0>>) \o le32(<<0, 8>>) \o le32(<<0, 9>>)
     \o <<3, 1, 2, 3>> :
     f \in {<<0, 0>>, <<0, 1>>, <<0, 2>>, <<65535, 65535>>}}

\* A message_layer68 record (text "hi") and a message_service_layer48
\* record (action message_action_empty) with flag word f, explicit from_id
\* from when bit 8 of f is set, and peer to_id.
MessageLayer68Input(f, from, peer) ==
  le32(<<49307, 58463>>) \o le32(f) \o le32(<<0, 5>>)
    \o (IF Bit(f, 8) THEN le32(from) ELSE <<>>)
    \o peer \o le32(<<24000, 0>>) \o <<2, 104, 105, 0>>

MessageServiceLayer48Input(f, from, peer) ==
  le32(<<49259, 38407>>) \o le32(f) \o le32(<<0, 5>>)
    \o (IF Bit(f, 8) THEN le32(from) ELSE <<>>)
    \o peer \o le32(<<24000, 0>>) \o le32(<<46766, 63408>>)

FromIdAdjustedInputs ==
  {MessageLayer68Input(f, from, p) :
     f \in {<<0, 0>>, <<0, 256>>}, from \in {<<0, 0>>, <<0, 41>>},
     p \in KnownPeers}
    \cup {MessageServiceLayer48Input(f, from, p) :
            f \in {<<0, 0>>, <<0, 256>>}, from \in {<<0, 0>>, <<0, 41>>},
            p \in KnownPeers}

\* The buffers of the runs that decode one record.
RecordInputs ==
  NotifyInputs \cup FlatInputs \cup VectorInputs \cup UserInputs
    \cup EncryptedChatRequestedInputs \cup FromIdAdjustedInputs

\* The buffers of the runs that keep an earlier call to compare with.
HistInputs ==
  {le32(t) \o Body(n) : t \in {<<57005, 48879>>, <<47312, 45023>>,
                               <<49228, 64194>>, <<8194, 20666>>},
                        n \in {4, MaxBody}}
    \cup {MessageInput(f, le32(<<40369, 48237>>) \o le32(<<0, 42>>), <<255>>, u) :
            f \in {<<0, 0>>, <<65, 0>>}, u \in {<<>>, <<9>>}}

\* The first byte of the long form.
LongMarkers == {254, 255}

PayloadBytes == {97}

\* A length prefix in the short form (length below 254), the payload and
\* some zero bytes.
ShortStringInput(L, b, tail) == <<L>> \o Repeat(b, L) \o Repeat(0, tail)

\* A length prefix in the long form (any length), the payload and some zero
\* bytes.
LongStringInput(m, L, b, tail) ==
  <<m, L % 256, (L \div 256) % 256, L \div 65536>> \o Repeat(b, L)
    \o Repeat(0, tail)

\* Payloads that are text: "hello", "e" with an acute accent (2 bytes), and
\* two that are not UTF-8 (a byte that starts no character, a first byte
\* without its continuation byte).
TextPayloads ==
  {<<104, 101, 108, 108, 111>>, <<195, 169>>, <<255>>, <<195, 40>>}

StringInputs ==
  {ShortStringInput(L, b, t) :
     L \in 0..(IF MaxLen < 253 THEN MaxLen ELSE 253), b \in PayloadBytes,
     t \in 0..MaxTail}
    \cup {LongStringInput(m, L, b, t) :
            m \in LongMarkers, L \in 0..MaxLen, b \in PayloadBytes,
            t \in 0..MaxTail}
    \cup {<<>>, <<254>>, <<254, 1, 0>>}
    \cup {EncodeString(p) : p \in TextPayloads}

(***************************************************************************)
(* State machine: one tblob instance and the calls made on it.             *)
(*   callbacks  self._callbacks                                            *)
(*   op         the last call                                              *)
(*   data       its argument                                               *)
(*   outcome    what it raised, returned and logged                        *)
(*   ref        an earlier parse_blob call, its outcome and the number of  *)
(*              parse_blob calls made since (history)                      *)
(*   teledb     the tdb that calls parse_blob, None when there is none     *)
(***************************************************************************)
NoOutcome ==
  [raised |-> "None", pblob |-> None, invoked |-> "None", tell |-> None,
   log |-> <<>>]

Init ==
  /\ callbacks = tblob_init
  /\ op = "init"
  /\ data = <<>>
  /\ outcome = NoOutcome
  /\ ref = None
  /\ teledb = None

Outcome(r) ==
  [raised |-> r.raised, pblob |-> r.pblob, invoked |-> r.invoked,
   tell |-> r.tell, log |-> r.log]

\* The number of later calls counted for the call kept in ref.
MaxCalls == 2

\* The state after the call, r what the call left.
Returned(d, r) ==
  /\ callbacks' = r.callbacks
  /\ op' = "parse_blob"
  /\ data' = d
  /\ outcome' = Outcome(r)

\* tblob.parse_blob(data)
ParseBlob(d) ==
  /\ Returned(d, parse_blob(callbacks, d))
  /\ ref' = IF ref = None THEN ref
            ELSE Some([ref[1] EXCEPT
                         !.calls = IF @ < MaxCalls THEN @ + 1 ELSE @])
  /\ UNCHANGED teledb

Next == \E d \in BlobInputs : ParseBlob(d)

Spec == Init /\ [][Next]_vars

\* The same call, kept in ref for the comparison with a later call.
ParseBlobKeep(d) ==
  /\ Returned(d, parse_blob(callbacks, d))
  /\ ref' = Some([data |-> d, outcome |-> outcome', calls |-> 0])
  /\ UNCHANGED teledb

NextHist == \E d \in HistInputs : ParseBlob(d) \/ ParseBlobKeep(d)

SpecHist == Init /\ [][NextHist]_vars

\* The primitive codecs applied to a buffer: the buffer is drawn first,
\* then tblob.tstring_struct.parse(data) or tblob.tbytes_struct.parse(data)
\* is called once.
InitPrim ==
  /\ callbacks = tblob_init
  /\ op = "init"
  /\ data \in StringInputs
  /\ outcome = NoOutcome
  /\ ref = None
  /\ teledb = None

StructOutcome(name, r) ==
  [raised |-> r.err,
   pblob |-> IF r.err = "None" THEN Some(r.val) ELSE None,
   invoked |-> name,
   tell |-> IF r.err = "None" THEN Some(r.off) ELSE None,
   log |-> r.log]

ParseTString ==
  /\ op = "init"
  /\ op' = "tstring_struct"
  /\ outcome' = StructOutcome("tstring_struct",
                            parse(tstring_struct, data, 0, <<>>))
  /\ UNCHANGED <<callbacks, data, ref, teledb>>

ParseTBytes ==
  /\ op = "init"
  /\ op' = "tbytes_struct"
  /\ outcome' = StructOutcome("tbytes_struct",
                            parse(tbytes_struct, data, 0, <<>>))
  /\ UNCHANGED <<callbacks, data, ref, teledb>>

NextPrim == ParseTString \/ ParseTBytes

SpecPrim == InitPrim /\ [][NextPrim]_vars

\* One record: the buffer is drawn first, then parse_blob(data) is called
\* once on a new instance.
InitRecord ==
  /\ callbacks = tblob_init
  /\ op = "init"
  /\ data \in RecordInputs
  /\ outcome = NoOutcome
  /\ ref = None
  /\ teledb = None

ParseRecord == op = "init" /\ ParseBlob(data)

NextRecord == ParseRecord

SpecRecord == InitRecord /\ [][NextRecord]_vars

(***************************************************************************)
(* tdb: teleparser.process builds a tblob and a tdb over the database and  *)
(* calls tdb.parse, which parses the tables in a fixed order, row by row.  *)
(*   teledb  None while no tdb exists, else the tdb and the position of    *)
(*           its parse call:                                               *)
(*     cursor         the database behind _sqlite_db_cursor, the rows of   *)
(*                    each table and the tables it does not have; a column *)
(*                    the code tests before it parses it (enc_chats.data,  *)
(*                    messages.replydata) is None or Some(bytes)           *)
(*     pc             "init" before parse is called, "parse" while it      *)
(*                    runs, "done" once it has returned, "saved" once      *)
(*                    save_parsed_tables has, "timeline" once              *)
(*                    create_timeline has, "raised" once an exception has  *)
(*                    left one of them                                     *)
(*     table          the index in TableNames of the table being parsed    *)
(*     entries        the rows of that table that are still to parse       *)
(*     tables         _table_chats ... _table_user_settings, the objects   *)
(*                    stored so far in insertion order                     *)
(*     user_self_set  the local of __parse_table_users                     *)
(*     raised         the exception that left the call                     *)
(*     log            the logger.error and logger.warning calls of tdb     *)
(*     dumps          what each call of save_parsed_tables has written:    *)
(*                    for each table, the entries of its file              *)
(*     timelines      what each call of create_timeline has written: the   *)
(*                    lines of timeline.csv                                *)
(***************************************************************************)
\* tdb.parse: the tables in the order their parsers are called.
TableNames ==
  <<"chats", "contacts", "dialogs", "enc_chats", "media_v2", "messages",
    "sent_files_v2", "users", "user_settings">>

\* The column a row is stored under.
KeyColumn(t) ==
  CASE t = "dialogs" -> "did"
    [] t \in {"media_v2", "messages"} -> "mid"
    [] OTHER -> "uid"

(***************************************************************************)
(* tdb: the values of a blob.  The code of tdb reads a blob by attribute,  *)
(* and tests, prints and compares what it finds.  What Python does with a  *)
(* value depends on its type, which a Container of the decoders does not   *)
(* hold here: it is read from the subcon that parsed the value.  A value   *)
(* with its type is                                                        *)
(*   kind  "None", "int", "str", "bytes", "bool", "float", "list",         *)
(*         "Container", or "flags" for the Container of a FlagsEnum        *)
(*   val   an int as the digits of its magnitude in base 65536, the high   *)
(*         digit first; a str as its pieces (see below); a Container as    *)
(*         the record of the values of its entries; a list as the          *)
(*         sequence of the values of its elements; any other value as the  *)
(*         decoders give it                                                *)
(*   sub   the Struct of a Container, the FlagsEnum of its flags,        *)
(*         <<"-">> for a negative int, <<"0x">> for the int and the bytes  *)
(*         of Hex, <<>> otherwise                                          *)
(*   text  of a Container, of flags, of a list and of a float, the str of  *)
(*         the value as construct and Python print it                      *)
(*                                                                         *)
(* A str is a sequence of pieces.  A character that comes from a decoded   *)
(* blob is a piece of its own; a literal of the code, the decimal form of  *)
(* a number and a date in ISO format are one piece each, and hold neither  *)
(* the separator nor a quote.                                              *)
(***************************************************************************)
\* The printable ASCII characters, from the space on (the grave accent,
\* which a string of the module cannot hold, by its code point).
Ascii ==
  <<" ", "!", "\"", "#", "$", "%", "&", "'", "(", ")", "*", "+", ",", "-",
    ".", "/", "0", "1", "2", "3", "4", "5", "6", "7", "8", "9", ":", ";",
    "<", "=", ">", "?", "@", "A", "B", "C", "D", "E", "F", "G", "H", "I",
    "J", "K", "L", "M", "N", "O", "P", "Q", "R", "S", "T", "U", "V", "W",
    "X", "Y", "Z", "[", "\\", "]", "^", "_", "U+96", "a", "b", "c", "d", "e",
    "f", "g", "h", "i", "j", "k", "l", "m", "n", "o", "p", "q", "r", "s",
    "t", "u", "v", "w", "x", "y", "z", "{", "|", "}", "~">>

\* The str of a decoded string s (the 'string' of a tstring that decoded):
\* one piece for each code point, U+<n> for code point n outside printable
\* ASCII.
str_of(s) ==
  [i \in 1..Len(s.value) |->
     IF s.value[i] \in 32..126 THEN Ascii[s.value[i] - 31]
     ELSE "U+" \o ToString(s.value[i])]

\* What a property or a method leaves: the exception it raised and the
\* value it returned.
Returns(val) == [raised |-> "None", val |-> val]

Raises(e) == [raised |-> e, val |-> None]

\* The first exception of a sequence of results, "None" when there is none.
first_raised(results) ==
  LET first(bad) ==
        IF bad = {} THEN "None"
        ELSE results[CHOOSE i \in bad : \A j \in bad : i <= j].raised
  IN first({i \in 1..Len(results) : results[i].raised # "None"})

Value(kind, val, sub) == [kind |-> kind, val |-> val, sub |-> sub]

NoneValue == Value("None", <<>>, <<>>)

\* An int of a row of the database, as a value
int_value(n) ==
  LET digits(m) == <<m \div 65536, m % 65536>>
  IN Value("int", digits(IF n < 0 THEN 0 - n ELSE n),
           IF n < 0 THEN <<"-">> ELSE <<>>)

\* obj.name: the entry of a Container, AttributeError for a Container
\* without it and for a value of any other type.
attribute(obj, name) ==
  IF obj.kind = "Container" /\ name \in DOMAIN obj.val
  THEN Returns(obj.val[name])
  ELSE IF obj.kind = "flags" /\ name \in DOMAIN obj.val
  THEN Returns(Value("bool", obj.val[name], <<>>))
  ELSE Raises("AttributeError")

\* obj.a.b.c, r being obj or the exception raised before: the attributes
\* named are read one after the other.
RECURSIVE path(_, _)
path(r, names) ==
  IF r.raised # "None" \/ names = <<>> THEN r
  ELSE path(attribute(r.val, Head(names)), Tail(names))

\* getattr(obj, name, None)
getattr(obj, name) ==
  LET got(a) == IF a.raised # "None" THEN NoneValue ELSE a.val
  IN got(attribute(obj, name))

\* bool(obj), the test of 'if obj:'.  The Container of a Struct holds _io
\* and that of a FlagsEnum holds _flagsenum: neither is empty.
truthy(obj) ==
  CASE obj.kind = "None" -> FALSE
    [] obj.kind = "int" -> \E i \in DOMAIN obj.val : obj.val[i] # 0
    [] obj.kind \in {"str", "bytes", "list"} -> obj.val # <<>>
    [] obj.kind = "bool" -> obj.val
    [] obj.kind = "float" ->
         \/ obj.val.exponent # 0
         \/ \E i \in DOMAIN obj.val.fraction : obj.val.fraction[i] # 0
    [] OTHER -> TRUE

\* int(obj) of what tdb reads from a blob, its id and its participant_id,
\* which every Struct of tblob that has them declares Int32ul or Int64ul:
\* the int itself, and TypeError for None, a list and a Container.
int(obj) ==
  CASE obj.kind = "int" -> Returns(obj)
    [] obj.kind = "bool" ->
         Returns(Value("int", <<0, IF obj.val THEN 1 ELSE 0>>, <<>>))
    [] obj.kind \in {"None", "list", "Container", "flags"} ->
         Raises("TypeError")

\* The digits of an int without the zeros it begins with
magnitude(n) ==
  LET digits(high) ==
        IF high = {} THEN <<>>
        ELSE SubSeq(n.val, CHOOSE i \in high : \A j \in high : i <= j,
                    Len(n.val))
  IN digits({i \in 1..Len(n.val) : n.val[i] # 0})

\* n == obj for an int n
equals(n, obj) ==
  /\ n.kind = "int"
  /\ obj.kind = "int"
  /\ magnitude(n) = magnitude(obj)
  /\ (magnitude(n) = <<>> \/ (n.sub = <<"-">>) = (obj.sub = <<"-">>))

(***************************************************************************)
(* tdb: text                                                               *)
(***************************************************************************)
\* The digits of an int divided by ten, from digit i on: st is the digits
\* of the quotient so far and the remainder.
RECURSIVE div10(_, _, _)
div10(digits, i, st) ==
  IF i > Len(digits) THEN st
  ELSE div10(digits, i + 1,
             <<Append(st[1], (st[2] * 65536 + digits[i]) \div 10),
               (st[2] * 65536 + digits[i]) % 10>>)

\* The decimal form of an int given by the digits of its magnitude
RECURSIVE decimal(_)
decimal(digits) ==
  LET next(d) ==
        (IF \A i \in DOMAIN d[1] : d[1][i] = 0 THEN "" ELSE decimal(d[1]))
          \o HexDigit[d[2] + 1]
  IN next(div10(digits, 1, <<<<>>, 0>>))

\* n.bit_length() of an int
bit_length(n) ==
  LET bits(d) == Cardinality({k \in 0..15 : 2 ^ k <= d})
      of(m) == IF m = <<>> THEN 0 ELSE 16 * (Len(m) - 1) + bits(m[1])
  IN of(magnitude(n))

\* n >> 32, which rounds to the lower int
shift32(n) ==
  LET bumped(high, k) ==
        [i \in 1..Len(high) |->
           IF i < k THEN high[i] ELSE IF i = k THEN high[i] + 1 ELSE 0]
      up(high, at) ==
        IF at = {} THEN <<1>> \o [i \in 1..Len(high) |-> 0]
        ELSE bumped(high, CHOOSE k \in at : \A j \in at : j <= k)
      shifted(d) ==
        IF n.sub # <<"-">> THEN Value("int", Take(d, Len(d) - 2), <<>>)
        ELSE IF d[Len(d) - 1] = 0 /\ d[Len(d)] = 0
        THEN Value("int", Take(d, Len(d) - 2),
                   IF magnitude(n) = <<>> THEN <<>> ELSE <<"-">>)
        ELSE Value("int",
                   up(Take(d, Len(d) - 2),
                      {i \in 1..(Len(d) - 2) : d[i] # 65535}),
                   <<"-">>)
  IN shifted(<<0, 0>> \o n.val)

\* n & 0xFFFFFFFF, of the two's complement of a negative n
low32(n) ==
  LET low(hi, lo) ==
        IF n.sub # <<"-">> \/ (hi = 0 /\ lo = 0)
        THEN Value("int", <<hi, lo>>, <<>>)
        ELSE IF lo = 0 THEN Value("int", <<65536 - hi, 0>>, <<>>)
        ELSE Value("int", <<65535 - hi, 65536 - lo>>, <<>>)
      of(d) == low(d[Len(d) - 1], d[Len(d)])
  IN of(<<0, 0>> \o n.val)

\* -1 * n
negated(n) ==
  Value("int", n.val,
        IF n.sub = <<"-">> \/ magnitude(n) = <<>> THEN <<>> ELSE <<"-">>)

\* '{}'.format(n) of an int
format_int(n) ==
  <<(IF n.sub = <<"-">> THEN "-" ELSE "") \o decimal(n.val)>>

\* CSV_SEPARATOR
CSV_SEPARATOR == ","

\* instr.strip('"\'')
strip_quotes(instr) ==
  LET stripped(keep) ==
        IF keep = {} THEN <<>>
        ELSE SubSeq(instr, CHOOSE i \in keep : \A j \in keep : i <= j,
                    CHOOSE i \in keep : \A j \in keep : j <= i)
  IN stripped({i \in 1..Len(instr) : instr[i] \notin {"\"", "'"}})

\* escape_csv_string(instr)
escape_csv_string(instr) ==
  LET quoted(s) ==
        <<"\"">> \o [i \in 1..Len(s) |-> IF s[i] = "\"" THEN "'" ELSE s[i]]
          \o <<"\"">>
  IN IF instr = <<>> THEN <<>> ELSE quoted(strip_quotes(instr))

\* to_date(epoch): '' for an epoch that is not true.  utcfromtimestamp
\* raises ValueError for an int outside the years 1 to 9999, and OSError
\* for one gmtime has no year for (time_t being of 64 bits); it raises
\* TypeError for a value that is no number.  The epoch is an int, a column
\* of a row or the Int32ul of a ttimestamp, or a bool; 86400 is 128 * 675.
to_date(epoch) ==
  LET less(a, b) ==
        \/ Len(a) < Len(b)
        \/ /\ Len(a) = Len(b)
           /\ \E i \in 1..Len(a) :
                a[i] < b[i] /\ \A j \in 1..(i - 1) : a[j] = b[j]
      date(q128, low) ==
        IF epoch.kind = "bool" THEN <<0, 1>>
        ELSE IF epoch.sub # <<"-">>
        THEN <<q128 \div 675, (q128 % 675) * 128 + low>>
        ELSE IF q128 % 675 = 0 /\ low = 0
        THEN <<0 - (q128 \div 675), 0>>
        ELSE <<0 - (q128 \div 675) - 1, 86400 - ((q128 % 675) * 128 + low)>>
      of(d) ==
        date(d[Len(d) - 2] * 33554432 + d[Len(d) - 1] * 512
               + d[Len(d)] \div 128,
             d[Len(d)] % 128)
      text(at) == Returns(<<isoformat(at[1], at[2])>>)
      ranged(m) ==
        IF epoch.kind \in {"str", "bytes", "list", "Container", "flags"}
        THEN Raises("TypeError")
        ELSE IF less(IF epoch.sub = <<"-">> THEN <<240, 49836, 33706, 63488>>
                     ELSE <<240, 49835, 31828, 43391>>, m)
        THEN Raises("OSError")
        ELSE IF less(IF epoch.sub = <<"-">> THEN <<14, 30609, 63232>>
                     ELSE <<58, 65524, 16767>>, m)
        THEN Raises("ValueError")
        ELSE text(of(<<0, 0, 0>> \o m))
  IN IF ~truthy(epoch) THEN Returns(<<>>)
     ELSE ranged(IF epoch.kind = "int" THEN magnitude(epoch) ELSE <<>>)

\* separator.join(texts)
RECURSIVE join(_, _)
join(separator, texts) ==
  IF texts = <<>> THEN <<>>
  ELSE IF Len(texts) = 1 THEN texts[1]
  ELSE join(separator, SubSeq(texts, 1, Len(texts) \div 2))
         \o separator
         \o join(separator, SubSeq(texts, (Len(texts) \div 2) + 1, Len(texts)))

\* trow.dict_to_string(dict_in), the dict a sequence of <<key, value>>
dict_to_string(dict_in) ==
  join(<<" ">>, [i \in 1..Len(dict_in) |->
                   dict_in[i][1] \o <<":">> \o dict_in[i][2]])

\* repr(b) of bytes b, a piece for each character of it: the quote is the
\* double one when b holds a single quote and no double one.
bytes_repr(b) ==
  LET quote(single, double) == IF single /\ ~double THEN "\"" ELSE "'"
      char(c, q) ==
        CASE c = 92 -> <<"\\", "\\">>
          [] c = 9 -> <<"\\", "t">>
          [] c = 10 -> <<"\\", "n">>
          [] c = 13 -> <<"\\", "r">>
          [] c = 39 /\ q = "'" -> <<"\\", "'">>
          [] c < 32 \/ c >= 127 ->
               <<"\\", "x", HexDigit[(c \div 16) + 1], HexDigit[(c % 16) + 1]>>
          [] OTHER -> <<Ascii[c - 31]>>
      repr(q) ==
        <<"b", q>> \o join(<<>>, [i \in 1..Len(b) |-> char(b[i], q)])
          \o <<q>>
  IN repr(quote(\E i \in 1..Len(b) : b[i] = 39,
                \E i \in 1..Len(b) : b[i] = 34))

\* repr(x) of a float x, which str(x) and '{}'.format(x) give: the fewest
\* decimal digits that round to x and, of those, the nearest to x (the
\* even one of two as near); in scientific notation when the decimal point
\* is more than 16 digits to the right of the first digit or more than 3
\* zeros lie between them, and with '.0' after an integer otherwise.  step
\* names a step of it and a holds what the step is given.  A natural number
\* is held as its digits of base 256, the highest first and not zero.
RECURSIVE float_repr(_, _)
float_repr(step, args) ==
  LET result(a) ==
        CASE step = "norm" ->
               \* a[1] without the zeros it begins with
               LET digits(high) ==
                     IF high = {} THEN <<>>
                     ELSE SubSeq(a[1], CHOOSE i \in high : \A j \in high : i <= j,
                                 Len(a[1]))
               IN digits({i \in 1..Len(a[1]) : a[1][i] # 0})
          [] step = "carried" ->
               \* The digits of the sum of t[i] * 256 ^ (Len(t) - i), t being
               \* a[1] and each t[i] between -255 and 2 * 256 - 2: a place takes
               \* one from the place after it (gives it one when that is below 0)
               \* when a place after it is 256 or more (is below 0) and all those
               \* between them are 255 (are 0).
               LET taken(i) ==
                     \E j \in (i + 1)..Len(a[1]) :
                       /\ a[1][j] >= 256
                       /\ \A l \in (i + 1)..(j - 1) : a[1][l] = 255
                   given(i) ==
                     \E j \in (i + 1)..Len(a[1]) :
                       /\ a[1][j] < 0
                       /\ \A l \in (i + 1)..(j - 1) : a[1][l] = 0
               IN float_repr(
                    "norm",
                    <<[i \in 1..Len(a[1]) |->
                         (a[1][i] + 256 + (IF taken(i) THEN 1 ELSE 0)
                            - (IF given(i) THEN 1 ELSE 0)) % 256]>>)
          [] step = "times" ->
               \* a[1] * a[2], a[2] up to 256
               float_repr(
                 "carried",
                 <<[i \in 1..(Len(a[1]) + 1) |->
                      (IF i = 1 THEN 0 ELSE (a[1][i - 1] * a[2]) % 256)
                        + (IF i > Len(a[1]) THEN 0
                           ELSE (a[1][i] * a[2]) \div 256)]>>)
          [] step = "shifted" ->
               \* a[1] * 2 ^ a[2]
               float_repr("times", <<a[1], 2 ^ (a[2] % 8)>>)
                 \o [i \in 1..(a[2] \div 8) |-> 0]
          [] step = "plus" ->
               LET len == Max(Len(a[1]), Len(a[2]))
                   digit(n, i) ==
                     IF i > len - Len(n) THEN n[i - (len - Len(n))] ELSE 0
               IN float_repr(
                    "carried",
                    <<[i \in 1..(len + 1) |->
                         IF i = 1 THEN 0
                         ELSE digit(a[1], i - 1) + digit(a[2], i - 1)]>>)
          [] step = "minus" ->
               \* a[1] - a[2], a[2] not above a[1]
               LET digit(i) ==
                     IF i > Len(a[1]) - Len(a[2])
                     THEN a[2][i - (Len(a[1]) - Len(a[2]))] ELSE 0
               IN float_repr("carried",
                                <<[i \in 1..Len(a[1]) |-> a[1][i] - digit(i)]>>)
          [] step = "less" ->
               \/ Len(a[1]) < Len(a[2])
               \/ /\ Len(a[1]) = Len(a[2])
                  /\ \E i \in 1..Len(a[1]) :
                       a[1][i] < a[2][i] /\ \A j \in 1..(i - 1) : a[1][j] = a[2][j]
          [] step = "product" ->
               \* a[1] * a[2]: the sums of the products of the digits of each
               \* place, the four digits of each sum added to their places, and
               \* the two of each of those.
               LET at(t, i) == IF i \in 1..Len(t) THEN t[i] ELSE 0
                   twos(t) ==
                     [i \in 1..(Len(t) + 1) |->
                        (at(t, i - 1) % 256) + (at(t, i) \div 256)]
                   fours(t) ==
                     [i \in 1..(Len(t) + 3) |->
                        (at(t, i - 3) % 256) + ((at(t, i - 2) \div 256) % 256)
                          + ((at(t, i - 1) \div 65536) % 256)
                          + (at(t, i) \div 16777216)]
                   sums ==
                     [i \in 1..(Len(a[1]) + Len(a[2]) - 1) |->
                        LET RECURSIVE sum(_)
                            sum(k) ==
                              IF k = 0 THEN 0
                              ELSE (IF i + 1 - k \in 1..Len(a[2])
                                    THEN a[1][k] * a[2][i + 1 - k] ELSE 0)
                                     + sum(k - 1)
                        IN sum(Len(a[1]))]
               IN float_repr("carried", <<twos(fours(sums))>>)
          [] step = "power5" ->
               \* 5 ^ a[1]
               IF a[1] < 4 THEN <<5 ^ a[1]>>
               ELSE IF a[1] % 2 = 0
               THEN float_repr("square", <<float_repr("power5",
                                                            <<a[1] \div 2>>)>>)
               ELSE float_repr(
                      "times",
                      <<float_repr("square", <<float_repr("power5",
                                                                <<a[1] \div 2>>)>>),
                        5>>)
          [] step = "square" -> float_repr("product", <<a[1], a[1]>>)
          [] step = "times10" ->
               \* a[1] * 10 ^ a[2]
               IF a[2] = 0 THEN a[1]
               ELSE float_repr(
                      "shifted",
                      <<float_repr("product",
                                      <<a[1], float_repr("power5", <<a[2]>>)>>),
                        a[2]>>)
          [] step = "reaches" ->
               \* a[1] reaches a[2]: it is not below it, and is above it when x
               \* is odd (a[3] is false)
               IF a[3] THEN ~float_repr("less", <<a[1], a[2]>>)
               ELSE float_repr("less", <<a[2], a[1]>>)
          [] step = "scale" ->
               \* The decimal point: k with 10 ^ (k - 1) <= high < 10 ^ k, high
               \* being (r + m_plus) / s, from the r, s, m_plus and m_minus of
               \* a[1] and the k of a[2]
               IF float_repr("reaches",
                                <<float_repr("plus", <<a[1].r, a[1].m_plus>>),
                                  a[1].s, a[3]>>)
               THEN float_repr(
                      "scale",
                      <<[a[1] EXCEPT !.s = float_repr("times", <<@, 10>>)],
                        a[2] + 1, a[3]>>)
               ELSE IF ~float_repr(
                          "reaches",
                          <<float_repr(
                              "times",
                              <<float_repr("plus", <<a[1].r, a[1].m_plus>>),
                                10>>),
                            a[1].s, a[3]>>)
               THEN float_repr(
                      "scale",
                      <<[r |-> float_repr("times", <<a[1].r, 10>>),
                         s |-> a[1].s,
                         m_plus |-> float_repr("times", <<a[1].m_plus, 10>>),
                         m_minus |-> float_repr("times", <<a[1].m_minus, 10>>)],
                        a[2] - 1, a[3]>>)
               ELSE [at |-> a[1], decpt |-> a[2]]
          [] step = "quorem" ->
               \* The quotient, a digit, and the remainder of a[1] by a[2]
               LET dig ==
                     CHOOSE d \in 0..9 :
                       /\ ~float_repr(
                              "less",
                              <<a[1], float_repr("times", <<a[2], d>>)>>)
                       /\ float_repr(
                             "less",
                             <<a[1],
                               float_repr("times", <<a[2], d + 1>>)>>)
               IN [dig |-> dig,
                   b |-> float_repr(
                           "minus",
                           <<a[1], float_repr("times", <<a[2], dig>>)>>)]
          [] step = "generate" ->
               \* The digits from r / s on, a being r, s, m_plus, m_minus
               \* and whether x is even: q is the next digit and what
               \* remains of r, high and low the halves of the gaps
               LET digits(q, high, low) ==
                     LET below ==
                           \/ float_repr("less", <<q.b, low>>)
                           \/ (a[5] /\ q.b = low)
                         above ==
                           float_repr(
                             "less",
                             <<a[2], float_repr("plus", <<q.b, high>>)>>)
                         up ==
                           \/ float_repr(
                                "less",
                                <<a[2], float_repr("times", <<q.b, 2>>)>>)
                           \/ /\ float_repr("times", <<q.b, 2>>) = a[2]
                              /\ q.dig % 2 = 1
                     IN IF a[5] /\ float_repr("plus", <<q.b, high>>) = a[2]
                        THEN <<IF float_repr("less", <<low, q.b>>)
                               THEN q.dig + 1 ELSE q.dig>>
                        ELSE IF below
                        THEN <<IF q.b # <<>> /\ above /\ up
                               THEN q.dig + 1 ELSE q.dig>>
                        ELSE IF above THEN <<q.dig + 1>>
                        ELSE <<q.dig>>
                               \o float_repr("generate",
                                                <<q.b, a[2], high, low, a[5]>>)
               IN CHOOSE generate_v \in
                    {digits(q, high, low) :
                       q \in {float_repr(
                                "quorem",
                                <<float_repr("times", <<a[1], 10>>),
                                  a[2]>>)},
                       high \in {float_repr("times", <<a[3], 10>>)},
                       low \in {float_repr("times", <<a[4], 10>>)}} : TRUE
          [] step = "text" ->
               \* The digits a[1] as a text
               IF a[1] = <<>> THEN ""
               ELSE IF Len(a[1]) = 1 THEN HexDigit[a[1][1] + 1]
               ELSE float_repr("text",
                                  <<SubSeq(a[1], 1, Len(a[1]) \div 2)>>)
                      \o float_repr(
                           "text",
                           <<SubSeq(a[1], (Len(a[1]) \div 2) + 1,
                                    Len(a[1]))>>)
          [] step = "short" ->
               \* The digits a[1] with the decimal point after a[2] of them
               LET exponent(n) ==
                     IF n < 10 THEN "0" \o ToString(n) ELSE ToString(n)
               IN IF a[2] <= 0 - 4 \/ a[2] > 16
                  THEN float_repr("text", <<<<Head(a[1])>>>>)
                         \o (IF Len(a[1]) > 1
                             THEN "." \o float_repr("text", <<Tail(a[1])>>)
                             ELSE "")
                         \o (IF a[2] > 0 THEN "e+" \o exponent(a[2] - 1)
                             ELSE "e-" \o exponent(1 - a[2]))
                  ELSE IF a[2] <= 0
                  THEN "0."
                         \o float_repr("text",
                                          <<[i \in 1..(0 - a[2]) |-> 0] \o a[1]>>)
                  ELSE IF a[2] >= Len(a[1])
                  THEN float_repr(
                         "text", <<a[1] \o [i \in 1..(a[2] - Len(a[1])) |-> 0]>>)
                         \o ".0"
                  ELSE float_repr("text", <<SubSeq(a[1], 1, a[2])>>) \o "."
                         \o float_repr("text",
                                          <<SubSeq(a[1], a[2] + 1, Len(a[1]))>>)
          [] step = "start" ->
               \* x is f * 2 ^ e, a being f, e, wide (1 when the gap to the float
               \* below x is half that to the float above, 0 otherwise) and the
               \* estimate of the decimal point: x is r / s, with the halves
               \* m_plus / s and m_minus / s of the gaps.
               IF a[2] >= 0
               THEN [r |-> float_repr("shifted", <<a[1], a[2] + a[3] + 1>>),
                     s |-> float_repr("times10",
                                         <<<<2 + 2 * a[3]>>, Max(a[4], 0)>>),
                     m_plus |-> float_repr("shifted", <<<<1>>, a[2] + a[3]>>),
                     m_minus |-> float_repr("shifted", <<<<1>>, a[2]>>)]
               ELSE [r |-> float_repr(
                             "times10",
                             <<float_repr("shifted", <<a[1], a[3] + 1>>),
                               Max(0 - a[4], 0)>>),
                     s |-> float_repr(
                             "times10",
                             <<float_repr("shifted",
                                             <<<<1>>, a[3] + 1 - a[2]>>),
                               Max(a[4], 0)>>),
                     m_plus |-> float_repr("times10",
                                              <<<<1 + a[3]>>, Max(0 - a[4], 0)>>),
                     m_minus |-> float_repr("times10",
                                               <<<<1>>, Max(0 - a[4], 0)>>)]
          [] step = "shortest" ->
               \* The text from what scale gave, a[1], for an even x or an odd
               \* one, a[2]
               float_repr(
                 "short",
                 <<float_repr("generate",
                                 <<a[1].at.r, a[1].at.s, a[1].at.m_plus,
                                   a[1].at.m_minus, a[2]>>),
                   a[1].decpt>>)
          [] step = "finite" ->
               \* a is f, e, whether x is even, wide and the estimate
               float_repr(
                 "shortest",
                 <<float_repr("scale",
                                 <<float_repr("start",
                                                 <<a[1], a[2], a[4], a[5]>>),
                                   a[5], a[3]>>),
                   a[3]>>)
            [] step = "repr" ->
                 \* a[1] is x, of sign, exponent (11 bits) and fraction
                 \* (the 52 bits as 7 bytes, the first of 4 bits): f * 2 ^ e
                 \* when it is finite.  The estimate of the decimal point is
                 \* within one: the number of digits of 2 ^ (the number of
                 \* bits of x before the binary point), the logarithm of 2
                 \* taken as 0.30103.
                 LET e ==
                       IF a[1].exponent = 0 THEN 0 - 1074
                       ELSE a[1].exponent - 1075
                     estimate(f) ==
                       ((e + 8 * (Len(f) - 1)
                           + Cardinality({k \in 0..7 : 2 ^ k <= f[1]}) - 1)
                          * 30103) \div 100000
                     finite(f) ==
                       IF f = <<>> THEN "0.0"
                       ELSE float_repr(
                              "finite",
                              <<f, e, a[1].fraction[7] % 2 = 0,
                                IF f = <<16, 0, 0, 0, 0, 0, 0>>
                                   /\ a[1].exponent > 1
                                THEN 1 ELSE 0,
                                estimate(f)>>)
                 IN IF a[1].exponent = 2047
                    THEN IF a[1].fraction # <<0, 0, 0, 0, 0, 0, 0>> THEN "nan"
                         ELSE IF a[1].sign = 1 THEN "-inf" ELSE "inf"
                    ELSE (IF a[1].sign = 1 THEN "-" ELSE "")
                           \o finite(float_repr(
                                       "norm",
                                       <<<<(IF a[1].exponent = 0 THEN 0
                                            ELSE 16) + a[1].fraction[1]>>
                                           \o Tail(a[1].fraction)>>))
  IN CHOOSE result_v \in {result(a) : a \in {args}} : TRUE

\* The names of the FlagsEnum of tblob.py whose values are not declared in
\* ascending order, as they are declared.
FlagsEnum_declared ==
  {<<"creator", "left", "broadcast", "has_username", "verified",
      "megagroup", "restricted", "signatures", "is_min", "has_admin_rights",
      "has_banned_rights", "has_participant_count", "has_access_hash",
      "scam">>,
    <<"creator", "left", "broadcast", "has_username", "verified",
      "megagroup", "restricted", "signatures", "is_min", "has_admin_rights",
      "has_banned_rights", "has_access_hash">>,
    <<"creator", "left", "broadcast", "has_username", "verified",
      "megagroup", "restricted", "signatures", "is_min", "has_admin_rights",
      "has_banned_rights", "has_participant_count", "has_access_hash">>,
    <<"unread", "out", "is_reply_to_msg_id", "mentioned", "media_unread",
      "has_from_id", "post", "silent", "is_grouped_id">>,
    <<"channel", "chat", "user">>,
    <<"unread", "out", "mentioned", "media_unread", "has_from_id",
      "is_via_bot", "post", "silent", "is_grouped_id">>,
    <<"unread", "out", "forwarded", "is_reply_to_msg_id", "mentioned",
      "media_unread", "has_reply_markup", "has_entities", "has_from_id",
      "has_media", "has_views", "is_via_bot", "post", "is_edited", "silent",
      "with_my_score">>,
    <<"out", "forwarded", "is_reply_to_msg_id", "mentioned", "media_unread",
      "has_reply_markup", "has_entities", "has_from_id", "has_media",
      "has_views", "is_via_bot", "silent", "post", "is_edited", "has_author",
      "is_grouped_id", "is_from_scheduled", "is_restricted", "is_legacy",
      "is_edit_hide">>,
    <<"has_access_hash", "has_first_name", "has_last_name", "has_username",
      "has_phone", "has_profile_photo", "has_status", "is_self", "is_contact",
      "is_mutual_contact", "is_deleted", "is_bot", "is_bot_chat_history",
      "is_bot_no_chats", "is_verified", "is_restricted", "has_lang_code",
      "has_bot_inline_placeholder", "has_min", "is_bot_inline_geo",
      "is_support">>,
    <<"has_access_hash", "has_first_name", "has_last_name", "has_username",
      "has_phone", "has_profile_photo", "has_status", "is_self", "is_contact",
      "is_mutual_contact", "is_deleted", "is_bot", "is_bot_chat_history",
      "is_bot_no_chats", "is_min", "is_verified", "is_bot_inline_geo",
      "is_restricted", "is_support">>}

\* The ranges of the code points that str.isprintable of Python 3.11 does
\* not hold printable.
NonPrintable ==
  {<<0, 31>>, <<127, 160>>, <<173, 173>>, <<888, 889>>, <<896, 899>>, <<907,
   907>>, <<909, 909>>, <<930, 930>>, <<1328, 1328>>, <<1367, 1368>>, <<1419,
   1420>>, <<1424, 1424>>, <<1480, 1487>>, <<1515, 1518>>, <<1525, 1541>>,
   <<1564, 1564>>, <<1757, 1757>>, <<1806, 1807>>, <<1867, 1868>>, <<1970,
   1983>>, <<2043, 2044>>, <<2094, 2095>>, <<2111, 2111>>, <<2140, 2141>>,
   <<2143, 2143>>, <<2155, 2159>>, <<2191, 2199>>, <<2274, 2274>>, <<2436,
   2436>>, <<2445, 2446>>, <<2449, 2450>>, <<2473, 2473>>, <<2481, 2481>>,
   <<2483, 2485>>, <<2490, 2491>>, <<2501, 2502>>, <<2505, 2506>>, <<2511,
   2518>>, <<2520, 2523>>, <<2526, 2526>>, <<2532, 2533>>, <<2559, 2560>>,
   <<2564, 2564>>, <<2571, 2574>>, <<2577, 2578>>, <<2601, 2601>>, <<2609,
   2609>>, <<2612, 2612>>, <<2615, 2615>>, <<2618, 2619>>, <<2621, 2621>>,
   <<2627, 2630>>, <<2633, 2634>>, <<2638, 2640>>, <<2642, 2648>>, <<2653,
   2653>>, <<2655, 2661>>, <<2679, 2688>>, <<2692, 2692>>, <<2702, 2702>>,
   <<2706, 2706>>, <<2729, 2729>>, <<2737, 2737>>, <<2740, 2740>>, <<2746,
   2747>>, <<2758, 2758>>, <<2762, 2762>>, <<2766, 2767>>, <<2769, 2783>>,
   <<2788, 2789>>, <<2802, 2808>>, <<2816, 2816>>, <<2820, 2820>>, <<2829,
   2830>>, <<2833, 2834>>, <<2857, 2857>>, <<2865, 2865>>, <<2868, 2868>>,
   <<2874, 2875>>, <<2885, 2886>>, <<2889, 2890>>, <<2894, 2900>>, <<2904,
   2907>>, <<2910, 2910>>, <<2916, 2917>>, <<2936, 2945>>, <<2948, 2948>>,
   <<2955, 2957>>, <<2961, 2961>>, <<2966, 2968>>, <<2971, 2971>>, <<2973,
   2973>>, <<2976, 2978>>, <<2981, 2983>>, <<2987, 2989>>, <<3002, 3005>>,
   <<3011, 3013>>, <<3017, 3017>>, <<3022, 3023>>, <<3025, 3030>>, <<3032,
   3045>>, <<3067, 3071>>, <<3085, 3085>>, <<3089, 3089>>, <<3113, 3113>>,
   <<3130, 3131>>, <<3141, 3141>>, <<3145, 3145>>, <<3150, 3156>>, <<3159,
   3159>>, <<3163, 3164>>, <<3166, 3167>>, <<3172, 3173>>, <<3184, 3190>>,
   <<3213, 3213>>, <<3217, 3217>>, <<3241, 3241>>, <<3252, 3252>>, <<3258,
   3259>>, <<3269, 3269>>, <<3273, 3273>>, <<3278, 3284>>, <<3287, 3292>>,
   <<3295, 3295>>, <<3300, 3301>>, <<3312, 3312>>, <<3315, 3327>>, <<3341,
   3341>>, <<3345, 3345>>, <<3397, 3397>>, <<3401, 3401>>, <<3408, 3411>>,
   <<3428, 3429>>, <<3456, 3456>>, <<3460, 3460>>, <<3479, 3481>>, <<3506,
   3506>>, <<3516, 3516>>, <<3518, 3519>>, <<3527, 3529>>, <<3531, 3534>>,
   <<3541, 3541>>, <<3543, 3543>>, <<3552, 3557>>, <<3568, 3569>>, <<3573,
   3584>>, <<3643, 3646>>, <<3676, 3712>>, <<3715, 3715>>, <<3717, 3717>>,
   <<3723, 3723>>, <<3748, 3748>>, <<3750, 3750>>, <<3774, 3775>>, <<3781,
   3781>>, <<3783, 3783>>, <<3790, 3791>>, <<3802, 3803>>, <<3808, 3839>>,
   <<3912, 3912>>, <<3949, 3952>>, <<3992, 3992>>, <<4029, 4029>>, <<4045,
   4045>>, <<4059, 4095>>, <<4294, 4294>>, <<4296, 4300>>, <<4302, 4303>>,
   <<4681, 4681>>, <<4686, 4687>>, <<4695, 4695>>, <<4697, 4697>>, <<4702,
   4703>>, <<4745, 4745>>, <<4750, 4751>>, <<4785, 4785>>, <<4790, 4791>>,
   <<4799, 4799>>, <<4801, 4801>>, <<4806, 4807>>, <<4823, 4823>>, <<4881,
   4881>>, <<4886, 4887>>, <<4955, 4956>>, <<4989, 4991>>, <<5018, 5023>>,
   <<5110, 5111>>, <<5118, 5119>>, <<5760, 5760>>, <<5789, 5791>>, <<5881,
   5887>>, <<5910, 5918>>, <<5943, 5951>>, <<5972, 5983>>, <<5997, 5997>>,
   <<6001, 6001>>, <<6004, 6015>>, <<6110, 6111>>, <<6122, 6127>>, <<6138,
   6143>>, <<6158, 6158>>, <<6170, 6175>>, <<6265, 6271>>, <<6315, 6319>>,
   <<6390, 6399>>, <<6431, 6431>>, <<6444, 6447>>, <<6460, 6463>>, <<6465,
   6467>>, <<6510, 6511>>, <<6517, 6527>>, <<6572, 6575>>, <<6602, 6607>>,
   <<6619, 6621>>, <<6684, 6685>>, <<6751, 6751>>, <<6781, 6782>>, <<6794,
   6799>>, <<6810, 6815>>, <<6830, 6831>>, <<6863, 6911>>, <<6989, 6991>>,
   <<7039, 7039>>, <<7156, 7163>>, <<7224, 7226>>, <<7242, 7244>>, <<7305,
   7311>>, <<7355, 7356>>, <<7368, 7375>>, <<7419, 7423>>, <<7958, 7959>>,
   <<7966, 7967>>, <<8006, 8007>>, <<8014, 8015>>, <<8024, 8024>>, <<8026,
   8026>>, <<8028, 8028>>, <<8030, 8030>>, <<8062, 8063>>, <<8117, 8117>>,
   <<8133, 8133>>, <<8148, 8149>>, <<8156, 8156>>, <<8176, 8177>>, <<8181,
   8181>>, <<8191, 8207>>, <<8232, 8239>>, <<8287, 8303>>, <<8306, 8307>>,
   <<8335, 8335>>, <<8349, 8351>>, <<8385, 8399>>, <<8433, 8447>>, <<8588,
   8591>>, <<9255, 9279>>, <<9291, 9311>>, <<11124, 11125>>, <<11158,
   11158>>, <<11508, 11512>>, <<11558, 11558>>, <<11560, 11564>>, <<11566,
   11567>>, <<11624, 11630>>, <<11633, 11646>>, <<11671, 11679>>, <<11687,
   11687>>, <<11695, 11695>>, <<11703, 11703>>, <<11711, 11711>>, <<11719,
   11719>>, <<11727, 11727>>, <<11735, 11735>>, <<11743, 11743>>, <<11870,
   11903>>, <<11930, 11930>>, <<12020, 12031>>, <<12246, 12271>>, <<12284,
   12288>>, <<12352, 12352>>, <<12439, 12440>>, <<12544, 12548>>, <<12592,
   12592>>, <<12687, 12687>>, <<12772, 12783>>, <<12831, 12831>>, <<42125,
   42127>>, <<42183, 42191>>, <<42540, 42559>>, <<42744, 42751>>, <<42955,
   42959>>, <<42962, 42962>>, <<42964, 42964>>, <<42970, 42993>>, <<43053,
   43055>>, <<43066, 43071>>, <<43128, 43135>>, <<43206, 43213>>, <<43226,
   43231>>, <<43348, 43358>>, <<43389, 43391>>, <<43470, 43470>>, <<43482,
   43485>>, <<43519, 43519>>, <<43575, 43583>>, <<43598, 43599>>, <<43610,
   43611>>, <<43715, 43738>>, <<43767, 43776>>, <<43783, 43784>>, <<43791,
   43792>>, <<43799, 43807>>, <<43815, 43815>>, <<43823, 43823>>, <<43884,
   43887>>, <<44014, 44015>>, <<44026, 44031>>, <<55204, 55215>>, <<55239,
   55242>>, <<55292, 63743>>, <<64110, 64111>>, <<64218, 64255>>, <<64263,
   64274>>, <<64280, 64284>>, <<64311, 64311>>, <<64317, 64317>>, <<64319,
   64319>>, <<64322, 64322>>, <<64325, 64325>>, <<64451, 64466>>, <<64912,
   64913>>, <<64968, 64974>>, <<64976, 65007>>, <<65050, 65055>>, <<65107,
   65107>>, <<65127, 65127>>, <<65132, 65135>>, <<65141, 65141>>, <<65277,
   65280>>, <<65471, 65473>>, <<65480, 65481>>, <<65488, 65489>>, <<65496,
   65497>>, <<65501, 65503>>, <<65511, 65511>>, <<65519, 65531>>, <<65534,
   65535>>, <<65548, 65548>>, <<65575, 65575>>, <<65595, 65595>>, <<65598,
   65598>>, <<65614, 65615>>, <<65630, 65663>>, <<65787, 65791>>, <<65795,
   65798>>, <<65844, 65846>>, <<65935, 65935>>, <<65949, 65951>>, <<65953,
   65999>>, <<66046, 66175>>, <<66205, 66207>>, <<66257, 66271>>, <<66300,
   66303>>, <<66340, 66348>>, <<66379, 66383>>, <<66427, 66431>>, <<66462,
   66462>>, <<66500, 66503>>, <<66518, 66559>>, <<66718, 66719>>, <<66730,
   66735>>, <<66772, 66775>>, <<66812, 66815>>, <<66856, 66863>>, <<66916,
   66926>>, <<66939, 66939>>, <<66955, 66955>>, <<66963, 66963>>, <<66966,
   66966>>, <<66978, 66978>>, <<66994, 66994>>, <<67002, 67002>>, <<67005,
   67071>>, <<67383, 67391>>, <<67414, 67423>>, <<67432, 67455>>, <<67462,
   67462>>, <<67505, 67505>>, <<67515, 67583>>, <<67590, 67591>>, <<67593,
   67593>>, <<67638, 67638>>, <<67641, 67643>>, <<67645, 67646>>, <<67670,
   67670>>, <<67743, 67750>>, <<67760, 67807>>, <<67827, 67827>>, <<67830,
   67834>>, <<67868, 67870>>, <<67898, 67902>>, <<67904, 67967>>, <<68024,
   68027>>, <<68048, 68049>>, <<68100, 68100>>, <<68103, 68107>>, <<68116,
   68116>>, <<68120, 68120>>, <<68150, 68151>>, <<68155, 68158>>, <<68169,
   68175>>, <<68185, 68191>>, <<68256, 68287>>, <<68327, 68330>>, <<68343,
   68351>>, <<68406, 68408>>, <<68438, 68439>>, <<68467, 68471>>, <<68498,
   68504>>, <<68509, 68520>>, <<68528, 68607>>, <<68681, 68735>>, <<68787,
   68799>>, <<68851, 68857>>, <<68904, 68911>>, <<68922, 69215>>, <<69247,
   69247>>, <<69290, 69290>>, <<69294, 69295>>, <<69298, 69375>>, <<69416,
   69423>>, <<69466, 69487>>, <<69514, 69551>>, <<69580, 69599>>, <<69623,
   69631>>, <<69710, 69713>>, <<69750, 69758>>, <<69821, 69821>>, <<69827,
   69839>>, <<69865, 69871>>, <<69882, 69887>>, <<69941, 69941>>, <<69960,
   69967>>, <<70007, 70015>>, <<70112, 70112>>, <<70133, 70143>>, <<70162,
   70162>>, <<70207, 70271>>, <<70279, 70279>>, <<70281, 70281>>, <<70286,
   70286>>, <<70302, 70302>>, <<70314, 70319>>, <<70379, 70383>>, <<70394,
   70399>>, <<70404, 70404>>, <<70413, 70414>>, <<70417, 70418>>, <<70441,
   70441>>, <<70449, 70449>>, <<70452, 70452>>, <<70458, 70458>>, <<70469,
   70470>>, <<70473, 70474>>, <<70478, 70479>>, <<70481, 70486>>, <<70488,
   70492>>, <<70500, 70501>>, <<70509, 70511>>, <<70517, 70655>>, <<70748,
   70748>>, <<70754, 70783>>, <<70856, 70863>>, <<70874, 71039>>, <<71094,
   71095>>, <<71134, 71167>>, <<71237, 71247>>, <<71258, 71263>>, <<71277,
   71295>>, <<71354, 71359>>, <<71370, 71423>>, <<71451, 71452>>, <<71468,
   71471>>, <<71495, 71679>>, <<71740, 71839>>, <<71923, 71934>>, <<71943,
   71944>>, <<71946, 71947>>, <<71956, 71956>>, <<71959, 71959>>, <<71990,
   71990>>, <<71993, 71994>>, <<72007, 72015>>, <<72026, 72095>>, <<72104,
   72105>>, <<72152, 72153>>, <<72165, 72191>>, <<72264, 72271>>, <<72355,
   72367>>, <<72441, 72703>>, <<72713, 72713>>, <<72759, 72759>>, <<72774,
   72783>>, <<72813, 72815>>, <<72848, 72849>>, <<72872, 72872>>, <<72887,
   72959>>, <<72967, 72967>>, <<72970, 72970>>, <<73015, 73017>>, <<73019,
   73019>>, <<73022, 73022>>, <<73032, 73039>>, <<73050, 73055>>, <<73062,
   73062>>, <<73065, 73065>>, <<73103, 73103>>, <<73106, 73106>>, <<73113,
   73119>>, <<73130, 73439>>, <<73465, 73647>>, <<73649, 73663>>, <<73714,
   73726>>, <<74650, 74751>>, <<74863, 74863>>, <<74869, 74879>>, <<75076,
   77711>>, <<77811, 77823>>, <<78895, 82943>>, <<83527, 92159>>, <<92729,
   92735>>, <<92767, 92767>>, <<92778, 92781>>, <<92863, 92863>>, <<92874,
   92879>>, <<92910, 92911>>, <<92918, 92927>>, <<92998, 93007>>, <<93018,
   93018>>, <<93026, 93026>>, <<93048, 93052>>, <<93072, 93759>>, <<93851,
   93951>>, <<94027, 94030>>, <<94088, 94094>>, <<94112, 94175>>, <<94181,
   94191>>, <<94194, 94207>>, <<100344, 100351>>, <<101590, 101631>>,
   <<101641, 110575>>, <<110580, 110580>>, <<110588, 110588>>, <<110591,
   110591>>, <<110883, 110927>>, <<110931, 110947>>, <<110952, 110959>>,
   <<111356, 113663>>, <<113771, 113775>>, <<113789, 113791>>, <<113801,
   113807>>, <<113818, 113819>>, <<113824, 118527>>, <<118574, 118575>>,
   <<118599, 118607>>, <<118724, 118783>>, <<119030, 119039>>, <<119079,
   119080>>, <<119155, 119162>>, <<119275, 119295>>, <<119366, 119519>>,
   <<119540, 119551>>, <<119639, 119647>>, <<119673, 119807>>, <<119893,
   119893>>, <<119965, 119965>>, <<119968, 119969>>, <<119971, 119972>>,
   <<119975, 119976>>, <<119981, 119981>>, <<119994, 119994>>, <<119996,
   119996>>, <<120004, 120004>>, <<120070, 120070>>, <<120075, 120076>>,
   <<120085, 120085>>, <<120093, 120093>>, <<120122, 120122>>, <<120127,
   120127>>, <<120133, 120133>>, <<120135, 120137>>, <<120145, 120145>>,
   <<120486, 120487>>, <<120780, 120781>>, <<121484, 121498>>, <<121504,
   121504>>, <<121520, 122623>>, <<122655, 122879>>, <<122887, 122887>>,
   <<122905, 122906>>, <<122914, 122914>>, <<122917, 122917>>, <<122923,
   123135>>, <<123181, 123183>>, <<123198, 123199>>, <<123210, 123213>>,
   <<123216, 123535>>, <<123567, 123583>>, <<123642, 123646>>, <<123648,
   124895>>, <<124903, 124903>>, <<124908, 124908>>, <<124911, 124911>>,
   <<124927, 124927>>, <<125125, 125126>>, <<125143, 125183>>, <<125260,
   125263>>, <<125274, 125277>>, <<125280, 126064>>, <<126133, 126208>>,
   <<126270, 126463>>, <<126468, 126468>>, <<126496, 126496>>, <<126499,
   126499>>, <<126501, 126502>>, <<126504, 126504>>, <<126515, 126515>>,
   <<126520, 126520>>, <<126522, 126522>>, <<126524, 126529>>, <<126531,
   126534>>, <<126536, 126536>>, <<126538, 126538>>, <<126540, 126540>>,
   <<126544, 126544>>, <<126547, 126547>>, <<126549, 126550>>, <<126552,
   126552>>, <<126554, 126554>>, <<126556, 126556>>, <<126558, 126558>>,
   <<126560, 126560>>, <<126563, 126563>>, <<126565, 126566>>, <<126571,
   126571>>, <<126579, 126579>>, <<126584, 126584>>, <<126589, 126589>>,
   <<126591, 126591>>, <<126602, 126602>>, <<126620, 126624>>, <<126628,
   126628>>, <<126634, 126634>>, <<126652, 126703>>, <<126706, 126975>>,
   <<127020, 127023>>, <<127124, 127135>>, <<127151, 127152>>, <<127168,
   127168>>, <<127184, 127184>>, <<127222, 127231>>, <<127406, 127461>>,
   <<127491, 127503>>, <<127548, 127551>>, <<127561, 127567>>, <<127570,
   127583>>, <<127590, 127743>>, <<128728, 128732>>, <<128749, 128751>>,
   <<128765, 128767>>, <<128884, 128895>>, <<128985, 128991>>, <<129004,
   129007>>, <<129009, 129023>>, <<129036, 129039>>, <<129096, 129103>>,
   <<129114, 129119>>, <<129160, 129167>>, <<129198, 129199>>, <<129202,
   129279>>, <<129620, 129631>>, <<129646, 129647>>, <<129653, 129655>>,
   <<129661, 129663>>, <<129671, 129679>>, <<129709, 129711>>, <<129723,
   129727>>, <<129734, 129743>>, <<129754, 129759>>, <<129768, 129775>>,
   <<129783, 129791>>, <<129939, 129939>>, <<129995, 130031>>, <<130042,
   131071>>, <<173792, 173823>>, <<177977, 177983>>, <<178206, 178207>>,
   <<183970, 183983>>, <<191457, 194559>>, <<195102, 196607>>, <<201547,
   917759>>, <<918000, 1114111>>}

\* The code point of a piece that is one character
ord(piece) ==
  LET RECURSIVE number(_, _)
      number(i, n) ==
        IF i > Len(piece) THEN n
        ELSE number(i + 1,
                    n * 10 + CHOOSE d \in 0..9 :
                               HexDigit[d + 1] = SubSeq(piece, i, i))
  IN IF \E c \in 1..Len(Ascii) : Ascii[c] = piece
     THEN 31 + CHOOSE c \in 1..Len(Ascii) : Ascii[c] = piece
     ELSE number(3, 0)

\* A piece is one character, or a text of the code: of the strings of a
\* Container, those of Computed, which hold letters, digits, '_', '-', ':'
\* and nothing else.
is_character(piece) == Len(piece) = 1 \/ SubSeq(piece, 1, 2) = "U+"

\* len(s) of a str s
len(s) ==
  LET RECURSIVE count(_, _)
      count(i, j) ==
        IF i > j THEN 0
        ELSE IF i = j THEN (IF is_character(s[i]) THEN 1 ELSE Len(s[i]))
        ELSE count(i, (i + j) \div 2) + count(((i + j) \div 2) + 1, j)
  IN count(1, Len(s))

\* repr(s) of a str s, a piece for each character of it: the quote is the
\* double one when s holds a single quote and no double one; a character
\* that is not printable is written by its code point.
str_repr(s) ==
  LET hex_of(c, n) ==
        [i \in 1..n |-> HexDigit[((c \div (16 ^ (n - i))) % 16) + 1]]
      char(piece, c, q) ==
        CASE c = 92 -> <<"\\", "\\">>
          [] c = 9 -> <<"\\", "t">>
          [] c = 10 -> <<"\\", "n">>
          [] c = 13 -> <<"\\", "r">>
          [] c = 39 /\ q = "'" -> <<"\\", "'">>
          [] c = 34 /\ q = "\"" -> <<"\\", "\"">>
          [] \E range \in NonPrintable : c \in range[1]..range[2] ->
               IF c < 256 THEN <<"\\", "x">> \o hex_of(c, 2)
               ELSE IF c < 65536 THEN <<"\\", "u">> \o hex_of(c, 4)
               ELSE <<"\\", "U", "0", "0">> \o hex_of(c, 6)
          [] OTHER -> <<piece>>
      repr(q) ==
        <<q>> \o join(<<>>, [i \in 1..Len(s) |->
                               IF is_character(s[i])
                               THEN char(s[i], ord(s[i]), q)
                               ELSE <<s[i]>>])
          \o <<q>>
  IN repr(IF (\E i \in 1..Len(s) : s[i] = "'")
             /\ ~\E i \in 1..Len(s) : s[i] = "\""
          THEN "\"" ELSE "'")

\* str(obj), which '{}'.format(obj) gives.  A Container, a list and a float
\* hold theirs as text.  An int and the bytes of Hex are a
\* HexDisplayedInteger and HexDisplayedBytes of construct: the int as '0x'
\* and eight hexadecimal digits, the ints of Hex being Int32ul, and the
\* bytes as the call of unhexlify that gives them.
str(obj) ==
  LET upper == <<"0", "1", "2", "3", "4", "5", "6", "7",
                 "8", "9", "A", "B", "C", "D", "E", "F">>
      RECURSIVE digits(_, _)
      digits(nib, i) ==
        IF i > Len(nib) THEN "" ELSE upper[nib[i] + 1] \o digits(nib, i + 1)
  IN Returns(
       CASE obj.kind \in {"Container", "flags", "list", "float"} -> obj.text
         [] obj.kind = "None" -> <<"None">>
         [] obj.kind = "int" /\ obj.sub = <<"0x">> ->
              <<"0x" \o digits(Nibbles(obj.val), 1)>>
         [] obj.kind = "int" -> format_int(obj)
         [] obj.kind = "str" -> obj.val
         [] obj.kind = "bytes" /\ obj.sub = <<"0x">> ->
              <<"unhexlify(", "b", "'">>
                \o join(<<>>, [i \in 1..Len(obj.val) |->
                                 <<HexDigit[(obj.val[i] \div 16) + 1],
                                   HexDigit[(obj.val[i] % 16) + 1]>>])
                \o <<"'", ")">>
         [] obj.kind = "bytes" -> bytes_repr(obj.val)
         [] obj.kind = "bool" -> <<IF obj.val THEN "True" ELSE "False">>)

\* The names of a Container of flags in the order of its items, which is
\* that of the declaration: of the values when they ascend.
flags_items(obj) ==
  LET before(name) ==
        {other \in DOMAIN obj.val : obj.sub[2][other] < obj.sub[2][name]}
  IN IF \E names \in FlagsEnum_declared :
          {names[i] : i \in 1..Len(names)} = DOMAIN obj.val
     THEN CHOOSE names \in FlagsEnum_declared :
            {names[i] : i \in 1..Len(names)} = DOMAIN obj.val
     ELSE [i \in 1..Cardinality(DOMAIN obj.val) |->
             CHOOSE name \in DOMAIN obj.val :
               Cardinality(before(name)) = i - 1]

\* The names of a Container of a Struct in the order of its items, which
\* is that of the first field of each name.
Container_items(obj) ==
  LET fields == obj.sub[2]
      named(i) ==
        /\ "name" \in DOMAIN fields[i]
        /\ fields[i].name \in DOMAIN obj.val
        /\ \A j \in 1..(i - 1) :
             "name" \in DOMAIN fields[j] => fields[j].name # fields[i].name
      first == SelectSeq([i \in 1..Len(fields) |-> i], named)
  IN [k \in 1..Len(first) |-> fields[first[k]].name]

\* Container.__str__ and ListContainer.__str__ of construct, as
\* tblob.__init__ sets them: the strings in full, the private entries,
\* whose names begin with '_', not printed.  Of a Container of flags the
\* entries that are true are printed.  The str of an entry that is a
\* Container, a list or a float is the text it holds.  A line break is a
\* piece of its own, and so is the indentation after it.
Container_str(obj) ==
  LET indentation == <<"\n", "    ">>
      indented(text) ==
        join(<<>>, [i \in 1..Len(text) |->
                      IF text[i] \in {"\n", "U+10"}
                      THEN <<text[i], "    ">> ELSE <<text[i]>>])
      total(text, n) == text \o <<" (total ", ToString(n), ")">>
      value(v) ==
        CASE v.kind = "bytes" /\ v.sub # <<"0x">> ->
               total(bytes_repr(v.val), Len(v.val))
          [] v.kind = "str" -> total(<<"u">> \o str_repr(v.val), len(v.val))
          [] OTHER -> indented(str(v).val)
      entries(names) ==
        join(<<>>, [i \in 1..Len(names) |->
                      IF SubSeq(names[i], 1, 1) = "_" THEN <<>>
                      ELSE indentation \o <<names[i], " = ">>
                             \o value(obj.val[names[i]])])
      flags(names) ==
        join(<<>>, [i \in 1..Len(names) |->
                      IF obj.val[names[i]]
                      THEN indentation \o <<names[i], " = ", "True">>
                      ELSE <<>>])
      elements(list) ==
        join(<<>>, [i \in 1..Len(list) |->
                      indentation \o indented(str(list[i]).val)])
  IN CASE obj.kind = "Container" ->
            <<"Container: ">> \o entries(Container_items(obj))
       [] obj.kind = "flags" -> <<"Container: ">> \o flags(flags_items(obj))
       [] obj.kind = "list" -> <<"ListContainer: ">> \o elements(obj.val)

\* A value with the text of its str, which a Container, a list and a float
\* hold: that of a Container and of a list is made of those of what they
\* hold.
Printed(obj) ==
  CASE obj.kind \in {"Container", "flags", "list"} ->
         [kind |-> obj.kind, val |-> obj.val, sub |-> obj.sub,
          text |-> Container_str(obj)]
    [] obj.kind = "float" ->
         [kind |-> obj.kind, val |-> obj.val, sub |-> obj.sub,
          text |-> <<float_repr("repr", <<obj.val>>)>>]
    [] OTHER -> obj

\* str of the value r holds, or the exception raised before
formatted(r) == IF r.raised # "None" THEN r ELSE str(r.val)

\* What is evaluated before a text is made and is no part of it
quiet(r) == IF r.raised # "None" THEN r ELSE Returns(<<>>)

\* ''.format of texts that are evaluated in order: the first exception of
\* them, or the texts one after the other.
format(texts) ==
  IF first_raised(texts) # "None" THEN Raises(first_raised(texts))
  ELSE Returns(join(<<>>, [i \in 1..Len(texts) |-> texts[i].val]))

\* to_date(epoch) of the value r holds, or the exception raised before
to_date_of(r) == IF r.raised # "None" THEN r ELSE to_date(r.val)

\* dict.update(items) of a dict given as a sequence of <<key, value>>
RECURSIVE update(_, _)
update(dict, items) ==
  LET set(at, item) ==
        IF at = {} THEN Append(dict, item)
        ELSE [i \in 1..Len(dict) |-> IF i \in at THEN item ELSE dict[i]]
  IN IF items = <<>> THEN dict
     ELSE update(set({i \in 1..Len(dict) : dict[i][1] = Head(items)[1]},
                     Head(items)),
                 Tail(items))

(***************************************************************************)
(* tdb: the blobs as values                                                *)
(***************************************************************************)
\* The Struct behind a subcon that gives a Container of fields.
struct_of(subcon) ==
  CASE subcon[1] = "Struct" -> subcon
    [] subcon[1] \in {"self", "LazyBound"} -> tblob[subcon[2]]
    [] subcon[1] = "structures" -> structures(subcon[2], subcon[3])

\* The subcon that gave a Container of struct its entry name: that of the
\* last field of the name.
field_subcon(struct, name) ==
  LET last(at) == struct[2][CHOOSE i \in at : \A j \in at : j <= i].subcon
  IN last({i \in 1..Len(struct[2]) :
             /\ "name" \in DOMAIN struct[2][i]
             /\ struct[2][i].name = name})

\* The value v that subcon gave within the Container this, with its type,
\* and with their types the values it holds.
RECURSIVE typed(_, _, _)
typed_value(subcon, v, this) ==
  LET container(struct) ==
        Value("Container",
              [name \in DOMAIN v |->
                 typed(field_subcon(struct, name), v[name], v)],
              struct)
  IN CASE subcon[1] \in {"Struct", "self", "LazyBound", "structures"} ->
            container(struct_of(subcon))
       [] subcon[1] = "Int32ul" -> Value("int", v, <<>>)
       [] subcon[1] = "Const" -> Value("int", v, <<"0x">>)
       [] subcon[1] = "Int64ul" -> Value("int", v[1] \o v[2], <<>>)
       [] subcon[1] \in {"Byte", "prefix_len", "Computed_int"} ->
            int_value(v)
       [] subcon[1] = "prefix_pl" ->
            IF this._check[1] >= 254 THEN Value("int", v, <<>>)
            ELSE int_value(v)
       [] subcon[1] \in {"Computed", "utc_isoformat", "tbool_value"} ->
            Value("str", IF v = "" THEN <<>> ELSE <<v>>, <<>>)
       [] subcon[1] \in {"GreedyBytes", "Bytes"} -> Value("bytes", v, <<>>)
       [] subcon[1] = "Hex" -> Value("bytes", v, <<"0x">>)
       [] subcon[1] = "decode_tstring" ->
            IF v.type = "str" THEN Value("str", str_of(v), <<>>)
            ELSE Value("bytes", v.value, <<>>)
       [] subcon[1] = "If" ->
            IF v = None THEN NoneValue ELSE typed(subcon[3], v[1], this)
       [] subcon[1] = "Peek" ->
            IF v = None THEN NoneValue ELSE typed(subcon[2], v[1], this)
       [] subcon[1] = "Switch" ->
            IF DOMAIN v = {} THEN NoneValue
            ELSE typed(subcon[3][this[subcon[2]][1]], v, this)
       [] subcon[1] = "IfThenElse" ->
            IF this[subcon[2]] \notin {None, Some(<<0, 0>>)}
            THEN typed(subcon[3], v, this)
            ELSE typed(subcon[4], v, this)
       [] subcon[1] = "Array" ->
            Value("list",
                  [i \in 1..Len(v) |-> typed(subcon[3], v[i], <<>>)], <<>>)
       [] subcon[1] \in {"FlagsEnum", "FlagsEnum_Int32ul",
                         "FlagsEnum_masks"} ->
            Value("flags", v, subcon)
       [] subcon[1] = "Float64b" -> Value("float", v, <<>>)
       [] OTHER -> NoneValue

\* The same with the text it holds, the three being evaluated once.
typed(of, value, in) ==
  CHOOSE typed_v \in {Printed(typed_value(subcon, v, this)) :
                        subcon \in {of}, v \in {value}, this \in {in}} : TRUE

\* The decoder of class tblob whose Struct gives Container c its sname (two
\* decoders that give the same sname are the same Struct).
decoder_of(c) ==
  CHOOSE blob_parser \in DOMAIN tblob :
    tblob[blob_parser][2][1].subcon = <<"Computed", c.sname>>

\* What parse_blob returned, None or a Container, as a value.
blob_value(blob) ==
  IF blob = None THEN NoneValue
  ELSE typed(<<"self", decoder_of(blob[1])>>, blob[1], <<>>)

(***************************************************************************)
(* tdb: parse                                                              *)
(***************************************************************************)
\* What the body of a table's loop leaves for one row: the exception it
\* raised, the parse_blob calls it made (argument and result), the object
\* it stored, user_self_set and its logger.error calls.
EntryResult(raised, calls, object, self_set, log) ==
  [raised |-> raised, calls |-> calls, object |-> object,
   user_self_set |-> self_set, log |-> log]

BlobCall(d, r) == [data |-> d, result |-> r]

\* The blob column of a row of table t that the loop parses first, the
\* bytes of it; <<>> for a row with none.
BlobColumn(t, entry) ==
  CASE t = "user_settings" -> entry.info
    [] t = "enc_chats" -> (IF entry.data = None THEN <<>> ELSE entry.data[1])
    [] t \in {"contacts", "dialogs"} -> <<>>
    [] OTHER -> entry.data

\* entry['replydata'], the bytes of it; <<>> for a row with none.
ReplyColumn(entry) ==
  IF "replydata" \in DOMAIN entry /\ entry.replydata # None
  THEN entry.replydata[1]
  ELSE <<>>

\* __parse_table_chats, __parse_table_media_v2, __parse_table_sent_files_v2
\* and __parse_table_user_settings, r what parse_blob left for the blob
\* column d: the row is stored with the blob.
parse_entry_blob(key, d, r, self_set) ==
  IF r.raised # "None"
  THEN EntryResult(r.raised, <<BlobCall(d, r)>>, None, self_set, <<>>)
  ELSE EntryResult("None", <<BlobCall(d, r)>>, [key |-> key, blob |-> r.pblob],
                   self_set, <<>>)

\* __parse_table_enc_chats, r what parse_blob left for data: data is parsed
\* when it is bytes; the admin_id of the blob, when it has one that is not
\* zero, is that of the row, and its participant_id the user of the row
\* unless the user is the admin.
parse_entry_enc_chats(key, entry, r, self_set) ==
  LET checked(admin_id, participant_id) ==
        IF \/ truthy(admin_id) /\ ~equals(entry.admin_id, admin_id)
           \/ /\ truthy(participant_id)
              /\ ~equals(entry.user, entry.admin_id)
              /\ ~equals(entry.user, participant_id)
        THEN EntryResult("AssertionError", <<BlobCall(entry.data[1], r)>>,
                         None, self_set, <<>>)
        ELSE EntryResult("None", <<BlobCall(entry.data[1], r)>>,
                         [key |-> key, blob |-> r.pblob], self_set, <<>>)
      read(blob) ==
        checked(getattr(blob, "admin_id"), getattr(blob, "participant_id"))
  IN IF entry.data = None
     THEN EntryResult("None", <<>>, [key |-> key, blob |-> None], self_set,
                      <<LogCall("error",
                                "enc_chats uid:%s blob is not made by bytes, skipping it",
                                <<key>>)>>)
     ELSE IF r.raised # "None"
     THEN EntryResult(r.raised, <<BlobCall(entry.data[1], r)>>, None,
                      self_set, <<>>)
     ELSE read(blob_value(r.pblob))

\* __parse_table_messages, r what parse_blob left for data and reply what
\* it left for replydata: data is parsed, then replydata when there is one.
\* The assertions on the date compare message_date_from_blob with itself
\* and never fail.
parse_entry_messages(key, entry, r, reply, self_set) ==
  IF r.raised # "None"
  THEN EntryResult(r.raised, <<BlobCall(entry.data, r)>>, None, self_set, <<>>)
  ELSE IF ReplyColumn(entry) = <<>>
  THEN EntryResult("None", <<BlobCall(entry.data, r)>>,
                   [key |-> key, blob |-> r.pblob, blob_reply |-> None],
                   self_set, <<>>)
  ELSE IF reply.raised # "None"
  THEN EntryResult(reply.raised,
                   <<BlobCall(entry.data, r),
                     BlobCall(ReplyColumn(entry), reply)>>,
                   None, self_set, <<>>)
  ELSE EntryResult("None",
                   <<BlobCall(entry.data, r),
                     BlobCall(ReplyColumn(entry), reply)>>,
                   [key |-> key, blob |-> r.pblob, blob_reply |-> reply.pblob],
                   self_set, <<>>)

\* tuser.is_self of the user of a blob
is_self(blob) == truthy(getattr(getattr(blob, "flags"), "is_self"))

\* __parse_table_users, r what parse_blob left for data: tuser reads blob.id
\* and asserts that int(blob.id) is uid; one user at most is the user the
\* database belongs to.
parse_entry_users(key, entry, r, self_set) ==
  LET made(blob, id) ==
        IF id.raised # "None"
        THEN EntryResult(id.raised, <<BlobCall(entry.data, r)>>, None,
                         self_set, <<>>)
        ELSE IF int(id.val).raised # "None"
        THEN EntryResult(int(id.val).raised, <<BlobCall(entry.data, r)>>,
                         None, self_set, <<>>)
        ELSE IF ~equals(key, id.val)
        THEN EntryResult("AssertionError", <<BlobCall(entry.data, r)>>, None,
                         self_set, <<>>)
        ELSE IF is_self(blob) /\ self_set
        THEN EntryResult("AssertionError", <<BlobCall(entry.data, r)>>, None,
                         self_set, <<>>)
        ELSE EntryResult("None", <<BlobCall(entry.data, r)>>,
                         [key |-> key, blob |-> r.pblob],
                         self_set \/ is_self(blob), <<>>)
      tuser(blob) == made(blob, attribute(blob, "id"))
  IN IF r.raised # "None"
     THEN EntryResult(r.raised, <<BlobCall(entry.data, r)>>, None, self_set,
                      <<>>)
     ELSE tuser(blob_value(r.pblob))

\* The body of the loop of __parse_table_<t> for one row, stored being the
\* objects of the table so far, r what parse_blob leaves for the blob
\* column and reply what it leaves for replydata: the key is not zero and
\* not yet in the table.
parse_entry(t, key, entry, stored, r, reply, self_set) ==
  IF ~truthy(key) \/ \E i \in 1..Len(stored) : equals(stored[i].key, key)
  THEN EntryResult("AssertionError", <<>>, None, self_set, <<>>)
  ELSE CASE t \in {"contacts", "dialogs"} ->
              EntryResult("None", <<>>, [key |-> key], self_set, <<>>)
         [] t \in {"chats", "media_v2", "sent_files_v2", "user_settings"} ->
              parse_entry_blob(key, BlobColumn(t, entry), r, self_set)
         [] t = "enc_chats" -> parse_entry_enc_chats(key, entry, r, self_set)
         [] t = "messages" ->
              parse_entry_messages(key, entry, r, reply, self_set)
         [] t = "users" -> parse_entry_users(key, entry, r, self_set)

\* The same, the second parse_blob call being made on the instance the
\* first has left.
parse_entry_reply(t, entry, stored, r, self_set) ==
  parse_entry(t, entry[KeyColumn(t)], entry, stored, r,
              parse_blob(r.callbacks, ReplyColumn(entry)), self_set)

\* tdb.__init__
tdb_init(db) ==
  [cursor |-> db, pc |-> "init", table |-> 0, entries |-> <<>>,
   tables |-> [i \in 1..Len(TableNames) |-> <<>>],
   user_self_set |-> FALSE, raised |-> "None", log |-> <<>>,
   dumps |-> <<>>, timelines |-> <<>>]

\* execute('SELECT * from <t>') and fetchall() at the head of the parser of
\* table number i.  The exception of a table the database does not have is
\* logged by __parse_table_user_settings, which returns, and leaves the
\* other parsers; __parse_table_users clears user_self_set.
select(db, i) ==
  LET t == TableNames[i]
  IN IF t \in db.cursor.missing /\ t = "user_settings"
     THEN [db EXCEPT !.table = i, !.entries = <<>>,
                     !.log = Append(@, LogCall("error",
                                "Exception accessing user_settings table. %s",
                                <<"no such table: user_settings">>))]
     ELSE IF t \in db.cursor.missing
     THEN [db EXCEPT !.table = i, !.pc = "raised",
                     !.raised = "OperationalError"]
     ELSE [db EXCEPT !.table = i, !.entries = db.cursor[t],
                     !.user_self_set = IF t = "users" THEN FALSE ELSE @]

\* tdb.parse is called: the first table is selected.
ParseCall ==
  /\ teledb # None
  /\ teledb[1].pc = "init"
  /\ teledb' = Some(select([teledb[1] EXCEPT !.pc = "parse"], 1))
  /\ UNCHANGED <<callbacks, op, data, outcome, ref>>

\* The tdb and the tblob after one row of tdb db, e what the body of the
\* loop left.  An exception leaves the loop, the table parser and parse,
\* none of which has a handler.
Entered(db, e) ==
  /\ teledb' =
       IF e.raised # "None"
       THEN Some([db EXCEPT !.pc = "raised", !.raised = e.raised])
       ELSE Some([db EXCEPT !.entries = Tail(@),
                            !.tables[db.table] = Append(@, e.object),
                            !.user_self_set = e.user_self_set,
                            !.log = @ \o e.log])
  /\ IF e.calls = <<>>
     THEN UNCHANGED <<callbacks, op, data, outcome>>
     ELSE /\ callbacks' = e.calls[Len(e.calls)].result.callbacks
          /\ op' = "parse_blob"
          /\ data' = e.calls[Len(e.calls)].data
          /\ outcome' = Outcome(e.calls[Len(e.calls)].result)
  /\ UNCHANGED ref

\* One row of the table being parsed.
ParseEntry ==
  /\ teledb # None
  /\ teledb[1].pc = "parse"
  /\ teledb[1].entries # <<>>
  /\ \E r \in {parse_blob(callbacks,
                           BlobColumn(TableNames[teledb[1].table],
                                      Head(teledb[1].entries)))} :
       \E e \in {parse_entry_reply(
                   TableNames[teledb[1].table], Head(teledb[1].entries),
                   teledb[1].tables[teledb[1].table], r,
                   teledb[1].user_self_set)} :
         Entered(teledb[1], e)

\* The loop of the table being parsed has ended: __parse_table_users
\* asserts user_self_set; the next table is selected, and parse returns
\* after the last.
ParseTableEnd ==
  /\ teledb # None
  /\ teledb[1].pc = "parse"
  /\ teledb[1].entries = <<>>
  /\ teledb' =
       IF TableNames[teledb[1].table] = "users" /\ ~teledb[1].user_self_set
       THEN Some([teledb[1] EXCEPT !.pc = "raised",
                                   !.raised = "AssertionError"])
       ELSE IF teledb[1].table < Len(TableNames)
       THEN Some(select(teledb[1], teledb[1].table + 1))
       ELSE Some([teledb[1] EXCEPT !.pc = "done"])
  /\ UNCHANGED <<callbacks, op, data, outcome, ref>>

(***************************************************************************)
(* tdb: the objects of the tables                                          *)
(***************************************************************************)
\* tuser.username, first_name, last_name and phone, name the field: the
\* string of the field when the flag has_<name> of the blob is set, ''
\* otherwise.
tuser_string(blob, name) ==
  LET string(has) ==
        IF has.raised # "None" THEN has
        ELSE IF ~truthy(has.val) THEN Returns(Value("str", <<>>, <<>>))
        ELSE path(Returns(blob), <<name, "string">>)
  IN string(path(Returns(blob), <<"flags", "has_" \o name>>))

\* tuser.full_text_id
full_text_id(user) ==
  format(<<Returns(<<"uid: ">> \o format_int(user.key) \o <<" nick: ">>),
           formatted(tuser_string(user.value, "username")),
           Returns(<<" fullname: ">>),
           formatted(tuser_string(user.value, "first_name")),
           Returns(<<" ">>),
           formatted(tuser_string(user.value, "last_name")),
           Returns(<<" phone: ">>),
           formatted(tuser_string(user.value, "phone"))>>)

\* The entry key of a dict for the value r holds, as dict_to_string writes
\* it, or the exception raised before.
item_of(key, r) ==
  LET entry(s) ==
        IF s.raised # "None" THEN s ELSE Returns(<<<<<<key>>, s.val>>>>)
  IN entry(formatted(r))

\* An entry of a dict that is set when its value is true
item(key, value) ==
  IF value.raised # "None" THEN value
  ELSE IF ~truthy(value.val) THEN Returns(<<>>)
  ELSE item_of(key, value)

\* tuser.dict_id
tuser_dict_id(user) ==
  format(<<item("username", tuser_string(user.value, "username")),
           item("firstname", tuser_string(user.value, "first_name")),
           item("lastname", tuser_string(user.value, "last_name")),
           item("phone", tuser_string(user.value, "phone"))>>)

\* tuser.shortest_id
tuser_shortest_id(user) ==
  LET owner(sis) ==
        IF sis.raised # "None" THEN sis
        ELSE IF is_self(user.value) THEN Returns(sis.val \o <<" (owner)">>)
        ELSE sis
      named(first_name, last_name) ==
        IF first_raised(<<first_name, last_name>>) # "None"
        THEN Raises(first_raised(<<first_name, last_name>>))
        ELSE IF truthy(first_name.val) /\ truthy(last_name.val)
        THEN format(<<formatted(first_name), Returns(<<" ">>), formatted(last_name)>>)
        ELSE IF truthy(first_name.val) THEN formatted(first_name)
        ELSE IF truthy(last_name.val) THEN formatted(last_name)
        ELSE Returns(format_int(user.key))
      shortest(username) ==
        IF username.raised # "None" THEN username
        ELSE IF truthy(username.val) THEN formatted(username)
        ELSE named(tuser_string(user.value, "first_name"),
                   tuser_string(user.value, "last_name"))
  IN owner(shortest(tuser_string(user.value, "username")))

\* tuser.photo_info (tchat.photo_info is the same code)
photo_info(blob) ==
  LET file(ph_blob, name, label) ==
        IF ~truthy(getattr(ph_blob, name)) THEN Returns(<<>>)
        ELSE format(<<Returns(<<label>>),
                      formatted(path(Returns(ph_blob),
                                <<name, name, "volume_id">>)),
                      Returns(<<"_">>),
                      formatted(path(Returns(ph_blob),
                                <<name, name, "local_id">>)),
                      Returns(<<".jpg">>)>>)
      info(ph_blob) ==
        IF ph_blob.raised # "None" THEN ph_blob
        ELSE format(<<formatted(attribute(ph_blob.val, "sname")),
                      file(ph_blob.val, "photo_small", " small: "),
                      file(ph_blob.val, "photo_big", " big: ")>>)
  IN IF ~truthy(getattr(blob, "photo")) THEN Returns(<<>>)
     ELSE info(path(Returns(blob), <<"photo", "photo">>))

(***************************************************************************)
(* tdb: save_parsed_tables                                                 *)
(***************************************************************************)
\* An object of a table with its blobs as values, and without them
valued(object) ==
  LET values(of, names) ==
        [name \in names |-> blob_value(object[of[name]])] @@ object
      held(of) ==
        values(of, {name \in DOMAIN of : of[name] \in DOMAIN object})
  IN held([value |-> "blob", reply_value |-> "blob_reply"])

object_of(valued_object) ==
  [name \in DOMAIN valued_object \ {"value", "reply_value"} |->
     valued_object[name]]

\* The tdb with the blobs of its objects as values
values_of(db) ==
  [db EXCEPT !.tables =
     [i \in DOMAIN @ |-> [k \in DOMAIN @[i] |-> valued(@[i][k])]]]

\* The number of table t in the order of parse and of save_parsed_tables.
TableNumber(t) == CHOOSE i \in 1..Len(TableNames) : TableNames[i] = t

\* self._table_<t>[key] when key is in the table: None or Some(object)
lookup(db, t, key) ==
  LET found(table, at) ==
        IF at = {} THEN None ELSE Some(table[CHOOSE i \in at : TRUE])
  IN found(db.tables[TableNumber(t)],
           {i \in 1..Len(db.tables[TableNumber(t)]) :
              equals(db.tables[TableNumber(t)][i].key, key)})

\* The row of the database an object of table t was made from; the object
\* holds the columns of the row as they are.
row_of(db, t, key) ==
  db.cursor[t][CHOOSE i \in 1..Len(db.cursor[t]) :
                 equals(db.cursor[t][i][KeyColumn(t)], key)]

\* 'From [users] -> <full_text_id>' when uid is in the users, 'User uid
\* missing in [users]' otherwise.
from_users(db, uid) ==
  LET found(text) ==
        IF text.raised # "None" THEN text
        ELSE Returns(<<"From [users] -> ">> \o text.val)
      line(user) ==
        IF user = None THEN Returns(<<"User uid missing in [users]">>)
        ELSE found(full_text_id(user[1]))
  IN line(lookup(db, "users", uid))

\* What __save_table_<t> writes for one object of the table, and the
\* exception that ends it: the separator, then the header with the key,
\* then the line about the user where there is one, then the text of each
\* blob in the order they are written.  The header is written when to_date has
\* returned, and the line about the user when full_text_id has; what was
\* written before an exception is in the file.
save_entry(db, t, object) ==
  LET entry(header, users, blobs) ==
        [key |-> object.key, header |-> header, users |-> users,
         blobs |-> blobs]
      written(date, users, blobs) ==
        IF date.raised # "None"
        THEN [raised |-> date.raised, entry |-> entry(FALSE, <<>>, <<>>)]
        ELSE IF users.raised # "None"
        THEN [raised |-> users.raised, entry |-> entry(TRUE, <<>>, <<>>)]
        ELSE [raised |-> "None", entry |-> entry(TRUE, users.val, blobs)]
      of(row) ==
        written(CASE t \in {"dialogs", "media_v2"} -> to_date(row.date)
                  [] t = "users" ->
                       IF row.status.sub # <<"-">> /\ truthy(row.status)
                       THEN to_date(row.status)
                       ELSE Returns(<<>>)
                  [] OTHER -> Returns(<<>>),
                CASE t \in {"contacts", "media_v2", "messages",
                            "user_settings"} ->
                       from_users(db, IF t \in {"media_v2", "messages"}
                                      THEN row.uid
                                      ELSE object.key)
                  [] t = "users" -> full_text_id(object)
                  [] OTHER -> Returns(<<>>),
                CASE t \in {"contacts", "dialogs"} -> <<>>
                  [] t = "messages" /\ truthy(object.reply_value) ->
                       <<str(object.value).val, str(object.reply_value).val>>
                  [] OTHER -> <<str(object.value).val>>)
  IN of(row_of(db, t, object.key))

\* The files save_parsed_tables has written when it has reached object
\* number k of table number i, files being what it wrote before: for each
\* table None, or the entries of its file once it is opened.  An exception
\* ends it: the file of the table holds what was written of the entry, and
\* the files of the tables after it are not made.
RECURSIVE save_tables(_, _, _, _)
save_tables(db, i, k, files) ==
  LET opened(file) == IF file = None THEN <<>> ELSE file[1]
      saved(e) ==
        IF e.raised # "None"
        THEN [raised |-> e.raised,
              files |-> [files EXCEPT ![i] = Some(Append(opened(@), e.entry))]]
        ELSE save_tables(db, i, k + 1,
                         [files EXCEPT
                            ![i] = Some(Append(opened(@), e.entry))])
  IN IF i > Len(TableNames) THEN [raised |-> "None", files |-> files]
     ELSE IF k > Len(db.tables[i])
     THEN save_tables(db, i + 1, 1, [files EXCEPT ![i] = Some(opened(@))])
     ELSE saved(save_entry(db, TableNames[i], db.tables[i][k]))

\* save_parsed_tables
save_parsed_tables(db) ==
  save_tables(values_of(db), 1, 1, [i \in 1..Len(TableNames) |-> None])

(***************************************************************************)
(* tdb: create_timeline                                                    *)
(***************************************************************************)
\* trow.__init__
trow ==
  [timestamp |-> <<>>, source |-> <<>>, id |-> <<>>, type |-> <<>>,
   from_who |-> <<>>, from_id |-> <<>>, to_who |-> <<>>, to_id |-> <<>>,
   dialog |-> <<>>, dialog_type |-> <<>>, content |-> <<>>, media |-> <<>>,
   extra |-> <<>>]

\* trow.fieldsnames
fieldsnames ==
  <<<<"timestamp">>, <<"source">>, <<"id">>, <<"type">>, <<"from">>,
    <<"from_id">>, <<"to">>, <<"to_id">>, <<"dialog">>, <<"dialog_type">>,
    <<"content">>, <<"media">>, <<"extra">>>>

\* trow.to_row_string
to_row_string(row, separator) ==
  join(<<separator>>,
       <<row.timestamp, row.source, row.id, row.type, row.from_who,
         row.from_id, row.to_who, row.to_id, row.dialog, row.dialog_type,
         escape_csv_string(row.content), row.media,
         escape_csv_string(dict_to_string(row.extra))>>)

\* getattr(flags, name, None) of the flags of a blob is true
flag(blob, name) ==
  truthy(getattr(getattr(blob, "flags"), name))

\* tchat.dict_id
tchat_dict_id(chat) ==
  format(<<item_of("title", path(Returns(chat.value),
                                 <<"title", "string">>)),
           IF flag(chat.value, "has_username")
           THEN item_of("username", path(Returns(chat.value),
                                         <<"username", "string">>))
           ELSE Returns(<<>>)>>)

\* tchat.chat_type
tchat_chat_type(chat) ==
  IF ~truthy(getattr(chat.value, "flags")) THEN Returns(<<>>)
  ELSE IF flag(chat.value, "broadcast") /\ flag(chat.value, "megagroup")
  THEN Raises("AssertionError")
  ELSE Returns(
         <<IF flag(chat.value, "broadcast") THEN "1-N"
           ELSE IF flag(chat.value, "megagroup") THEN "N-N" ELSE "?-?">>
         \o <<IF flag(chat.value, "has_username") THEN " pub" ELSE " prv">>
         \o (IF flag(chat.value, "left") THEN <<" left">> ELSE <<>>))

\* tchat.shortest_id: with the flag has_username the username, or '' for an
\* empty one; otherwise the title, or the uid for an empty one.
tchat_shortest_id(chat) ==
  LET named(string, otherwise) ==
        IF string.raised # "None" THEN string
        ELSE IF truthy(string.val) THEN str(string.val)
        ELSE Returns(otherwise)
  IN IF flag(chat.value, "has_username")
     THEN named(path(Returns(chat.value),
                     <<"username", "string">>),
                <<>>)
     ELSE named(path(Returns(chat.value), <<"title", "string">>),
                format_int(chat.key))

\* tchat.creation_date, techat.creation_date: the epoch of the date of the
\* blob, None without one.
creation_date(blob) ==
  IF truthy(getattr(blob, "date"))
  THEN getattr(getattr(blob, "date"), "epoch")
  ELSE NoneValue

\* techat.shortest_id
techat_shortest_id(db, echat) ==
  LET shortest(name) == IF name # <<>> THEN name ELSE format_int(echat.key)
  IN shortest(row_of(db, "enc_chats", echat.key).name)

\* The dialog and dialog_type of the row of a dialog or a message whose
\* dialog is cid: those of the chat or of the encrypted chat cid.
dialog_of(db, cid) ==
  LET of_chat(sid, type) ==
        IF first_raised(<<sid, type>>) # "None"
        THEN Raises(first_raised(<<sid, type>>))
        ELSE Returns(<<sid.val, type.val>>)
      of(chat, echat) ==
        IF chat # None
        THEN of_chat(tchat_shortest_id(chat[1]), tchat_chat_type(chat[1]))
        ELSE IF echat # None
        THEN Returns(<<techat_shortest_id(db, echat[1]),
                       <<"encrypted 1-1">>>>)
        ELSE Returns(<<<<>>, <<"1-1">>>>)
  IN of(lookup(db, "chats", cid), lookup(db, "enc_chats", cid))

\* What the body of the loop of a generator leaves for one object: the
\* exception it raised, the rows it yielded, the object afterwards and its
\* logger calls.
Yielded(raised, rows, object, log) ==
  [raised |-> raised, rows |-> rows, object |-> object, log |-> log]

\* __chats_to_timeline, the body of the loop
chats_to_timeline(db, chat) ==
  LET set(present, key) ==
        IF present THEN <<<<<<key>>, <<"true">>>>>> ELSE <<>>
      flags(blob) ==
        IF ~truthy(getattr(blob, "flags")) THEN Returns(<<>>)
        ELSE format(
               <<Returns(<<<<" ">>>>
                           \o set(flag(chat.value, "creator"), "creator")
                           \o set(flag(chat.value, "left"), "left")
                           \o set(flag(chat.value, "broadcast"), "broadcast")
                           \o set(flag(chat.value, "megagroup"), "megagroup")),
                 IF flag(chat.value, "has_participants_count")
                 THEN item_of("members",
                              attribute(blob, "participants_count"))
                 ELSE Returns(<<>>)>>)
      yielded(raised, sid, type, sname, did, date, df, photo) ==
        IF raised # "None" THEN Yielded(raised, <<>>, chat, <<>>)
        ELSE Yielded(
               "None",
               <<[trow EXCEPT
                    !.source = <<"chats">>,
                    !.id = format_int(chat.key),
                    !.dialog = sid.val,
                    !.dialog_type = type.val,
                    !.content =
                      sname.val \o <<" ">> \o dict_to_string(did.val)
                        \o (IF df.val = <<>> THEN <<>>
                            ELSE df.val[1] \o dict_to_string(Tail(df.val))),
                    !.timestamp = date.val,
                    !.type = IF truthy(creation_date(chat.value))
                             THEN <<"chat_creation_date">> ELSE sname.val,
                    !.media = photo.val]>>,
               chat, <<>>)
      read(sid, type, sname, did, date, df, photo) ==
        yielded(first_raised(<<sid, type, sname, did, date, df, photo>>),
                sid, type, sname, did, date, df, photo)
  IN read(tchat_shortest_id(chat), tchat_chat_type(chat),
          formatted(attribute(chat.value, "sname")),
          tchat_dict_id(chat), to_date_of(Returns(creation_date(chat.value))),
          flags(chat.value), photo_info(chat.value))

\* __dialogs_to_timeline, the body of the loop
dialogs_to_timeline(db, dialog) ==
  LET yielded(raised, entry, d, date) ==
        IF raised # "None" THEN Yielded(raised, <<>>, dialog, <<>>)
        ELSE Yielded("None",
                     <<[trow EXCEPT
                          !.source = <<"dialogs">>,
                          !.id = format_int(dialog.key),
                          !.dialog = d.val[1],
                          !.dialog_type = d.val[2],
                          !.content =
                            <<"dialog unread_count:">>
                              \o format_int(entry.unread_count)
                              \o <<" inbox_max:">>
                              \o format_int(entry.inbox_max)
                              \o <<" outbox_max:">>
                              \o format_int(entry.outbox_max)
                              \o <<" pts:">> \o format_int(entry.pts)
                              \o <<" last_mid:">>
                              \o format_int(entry.last_mid),
                          !.timestamp = date.val,
                          !.type = <<"chat_last_update">>]>>,
                     dialog, <<>>)
      read(entry, d) ==
        yielded(first_raised(<<d, to_date(entry.date)>>), entry, d,
                to_date(entry.date))
  IN read(row_of(db, "dialogs", dialog.key),
          dialog_of(db, IF bit_length(dialog.key) > 32
                        THEN shift32(dialog.key)
                        ELSE IF dialog.key.sub = <<"-">>
                        THEN negated(dialog.key)
                        ELSE dialog.key))

\* self._table_users[uid].shortest_id when uid is in the users, '' when it
\* is not
users_shortest_id(db, uid) ==
  LET shortest(user) ==
        IF user = None THEN Returns(<<>>) ELSE tuser_shortest_id(user[1])
  IN shortest(lookup(db, "users", uid))

\* techat.participant_id: int(participant_id) of the blob when it has one
\* that is not zero, or the user of the row when it is not the admin; None,
\* with a warning, otherwise.
participant_id(db, echat) ==
  LET participant(entry, of_blob) ==
        IF truthy(of_blob) THEN int(of_blob)
        ELSE IF ~equals(entry.admin_id, entry.user)
        THEN Returns(entry.user)
        ELSE Returns(NoneValue)
  IN participant(row_of(db, "enc_chats", echat.key),
                 getattr(echat.value, "participant_id"))

\* __enc_chats_to_timeline, the body of the loop: one row, and a second one
\* when the row of the table has a key_date, whose to_date is called when
\* the first is yielded.  participant_id is read twice when it is None, and
\* warns each time.
enc_chats_to_timeline(db, echat) ==
  LET rows(row, key_date, log) ==
        IF key_date.raised # "None"
        THEN Yielded(key_date.raised, <<row>>, echat, log)
        ELSE IF key_date.val = <<>> THEN Yielded("None", <<row>>, echat, log)
        ELSE Yielded("None",
                     <<row, [row EXCEPT !.timestamp = key_date.val,
                                        !.type = <<"key_date">>]>>,
                     echat, log)
      warnings(pid) ==
        IF pid.raised # "None" \/ pid.val.kind # "None" THEN <<>>
        ELSE [i \in 1..2 |->
                LogCall("warning",
                        "encrypted chat %s has not a valid participant_id!",
                        <<echat.key>>)]
      yielded(raised, entry, admin, pid, participant, to_id, sname, date) ==
        IF raised # "None" THEN Yielded(raised, <<>>, echat, <<>>)
        ELSE rows([trow EXCEPT
                       !.source = <<"enc_chats">>,
                       !.id = format_int(echat.key),
                       !.dialog = techat_shortest_id(db, echat),
                       !.dialog_type = <<"encrypted 1-1">>,
                       !.from_who = admin.val,
                       !.from_id = format_int(entry.admin_id),
                       !.to_who = participant.val,
                       !.to_id = to_id.val,
                       !.content =
                         sname.val \o <<" ">>
                           \o dict_to_string(
                                <<<<<<"name">>, entry.name>>,
                                  <<<<"ttl">>, format_int(entry.ttl)>>,
                                  <<<<"seq_in">>, format_int(entry.seq_in)>>,
                                  <<<<"seq_out">>,
                                    format_int(entry.seq_out)>>>>),
                       !.timestamp = date.val,
                       !.type = IF truthy(creation_date(echat.value))
                                THEN <<"chat_creation_date">> ELSE <<>>],
                  to_date(entry.key_date), warnings(pid))
      read(entry, admin, pid, participant, to_id, sname, date) ==
        yielded(first_raised(<<admin, pid, participant, to_id, sname, date>>),
                entry, admin, pid, participant, to_id, sname, date)
      of(entry, pid) ==
        read(entry, users_shortest_id(db, entry.admin_id), pid,
             IF pid.raised # "None" THEN pid
             ELSE IF ~truthy(pid.val) THEN Returns(<<>>)
             ELSE users_shortest_id(db, pid.val),
             formatted(pid),
             IF attribute(echat.value, "sname").raised # "None"
             THEN Returns(<<>>)
             ELSE formatted(attribute(echat.value, "sname")),
             to_date_of(Returns(creation_date(echat.value))))
  IN of(row_of(db, "enc_chats", echat.key), participant_id(db, echat))

\* __users_to_timeline, the body of the loop
users_to_timeline(db, user) ==
  LET set(value, key) ==
        IF value.raised # "None" THEN value
        ELSE IF truthy(value.val)
        THEN Returns(<<<<<<key>>, <<"true">>>>>>)
        ELSE Returns(<<>>)
      status(has_status, blob) ==
        IF has_status.raised # "None" THEN has_status
        ELSE IF ~truthy(has_status.val) THEN Returns(<<>>)
        ELSE item("status", path(Returns(blob),
                                 <<"status", "status", "sname">>))
      contact(mutual, flags) ==
        IF mutual.raised # "None" THEN mutual
        ELSE IF truthy(mutual.val)
        THEN Returns(<<<<<<"mutual_contact">>, <<"true">>>>>>)
        ELSE set(attribute(flags, "is_contact"), "contact")
      ui_dict(blob, flags) ==
        IF ~truthy(flags) THEN Returns(<<>>)
        ELSE format(<<status(attribute(flags, "has_status"), blob),
                      set(attribute(flags, "is_bot"), "bot"),
                      contact(attribute(flags, "is_mutual_contact"),
                              flags)>>)
      content(did, ui) ==
        dict_to_string(did)
          \o (IF ui # <<>> THEN <<" ">> \o dict_to_string(ui) ELSE <<>>)
      yielded(raised, entry, sid, status_date, did, ui, photo) ==
        IF raised # "None" THEN Yielded(raised, <<>>, user, <<>>)
        ELSE Yielded(
               "None",
               <<[trow EXCEPT
                    !.source = <<"users">>,
                    !.id = format_int(user.key),
                    !.from_who = sid.val,
                    !.from_id = format_int(user.key),
                    !.type = IF entry.status.sub # <<"-">>
                                /\ truthy(entry.status)
                             THEN <<"user_status_update">> ELSE <<>>,
                    !.timestamp = status_date.val,
                    !.content = content(did.val, ui.val),
                    !.media = photo.val]>>,
               user, <<>>)
      read(entry, sid, status_date, did, ui, photo) ==
        yielded(first_raised(<<sid, status_date, did, ui, photo>>), entry,
                sid, status_date, did, ui, photo)
      of(entry) ==
        read(entry, tuser_shortest_id(user),
             IF entry.status.sub = <<"-">> THEN Returns(<<>>)
             ELSE to_date(entry.status),
             tuser_dict_id(user),
             ui_dict(user.value, getattr(user.value, "flags")),
             photo_info(user.value))
  IN of(row_of(db, "users", user.key))

\* tmessage.dialog_and_sequence, uid the uid of the row: <<dialog, msg_seq>>.
\* 210000 is 3 * 65536 + 13392, and a mid of 32 bits at most has two digits.
dialog_and_sequence(mid, uid) ==
  LET less(hi, lo) ==
        IF hi > 3 \/ (hi = 3 /\ lo >= 13392)
        THEN Value("int",
                   IF lo >= 13392 THEN <<hi - 3, lo - 13392>>
                   ELSE <<hi - 4, lo + 52144>>,
                   <<>>)
        ELSE int_value((hi * 65536 + lo) - 210000)
      sequence(d) == less(d[Len(d) - 1], d[Len(d)])
  IN IF bit_length(mid) > 32
     THEN (IF uid.sub # <<"-">>
              \/ ~equals(low32(shift32(mid)), negated(uid))
           THEN Raises("AssertionError")
           ELSE Returns(<<low32(shift32(mid)), low32(mid)>>))
     ELSE IF ~truthy(uid) THEN Raises("AssertionError")
     ELSE Returns(<<IF bit_length(uid) > 32 THEN low32(shift32(uid))
                    ELSE IF uid.sub = <<"-">> THEN negated(uid) ELSE uid,
                    IF mid.sub # <<"-">> /\ truthy(mid) THEN mid
                    ELSE sequence(<<0, 0>> \o mid.val)>>)

\* tmessage.to_id_and_type: <<to_who, to_type>>, <<None, None>> for a peer
\* that is neither a channel nor a user.
to_id_and_type(blob) ==
  LET to(id, type) ==
        IF id.raised # "None" THEN id ELSE Returns(<<id.val, type>>)
      of(to_id_c, sname) ==
        IF sname.raised # "None" THEN sname
        ELSE IF sname.val.kind = "str" /\ sname.val.val = <<"peer_channel">>
        THEN to(attribute(to_id_c.val, "channel_id"), "channel")
        ELSE IF sname.val.kind = "str" /\ sname.val.val = <<"peer_user">>
        THEN to(attribute(to_id_c.val, "user_id"), "chat")
        ELSE Returns(<<NoneValue, "None">>)
  IN of(path(Returns(blob), <<"to_id", "to_id">>),
        path(Returns(blob), <<"to_id", "to_id", "sname">>))

\* tmessage.message_content: escape_csv_string of the text of the message.
\* A text that did not decode is bytes, whose strip('"\'') raises.
message_content(blob) ==
  LET escaped(string) ==
        IF string.raised # "None" THEN string
        ELSE IF ~truthy(string.val) THEN Returns(<<>>)
        ELSE IF string.val.kind = "str"
        THEN Returns(escape_csv_string(string.val.val))
        ELSE IF string.val.kind = "bytes" THEN Raises("TypeError")
        ELSE Raises("AttributeError")
  IN IF ~truthy(getattr(blob, "message")) THEN Returns(<<>>)
     ELSE escaped(path(Returns(blob), <<"message", "string">>))

\* tmessage.message_date_from_blob
message_date_from_blob(blob) == creation_date(blob)

\* The entries of list, r being the list or the exception raised before:
\* the values of 'for entry in r'.
entries(r) ==
  IF r.raised # "None" THEN r
  ELSE IF r.val.kind = "list"
  THEN Returns(r.val.val)
  ELSE IF r.val.kind \in {"str", "bytes"} /\ r.val.val = <<>>
  THEN Returns(<<>>)
  ELSE IF r.val.kind \in {"str", "bytes", "Container", "flags"}
  THEN Raises("AttributeError")
  ELSE Raises("TypeError")

\* __message_media, the document of media
media_document(media) ==
  LET file_name(entry, sname) ==
        IF sname.raised # "None" THEN sname
        ELSE IF sname.val.kind = "str"
                /\ sname.val.val = <<"document_attribute_filename">>
        THEN format(<<Returns(<<" file_name:">>),
                      formatted(path(Returns(entry),
                                <<"document", "file_name", "string">>))>>)
        ELSE Returns(<<>>)
      names(array) ==
        IF array.raised # "None" THEN array
        ELSE format([i \in 1..Len(array.val) |->
                       file_name(array.val[i],
                                 path(Returns(array.val[i]),
                                      <<"document", "sname">>))])
      described(document) ==
        format(<<Returns(<<"document id:">>),
                 formatted(path(document, <<"id">>)),
                 Returns(<<" date:">>),
                 to_date_of(path(document, <<"date", "epoch">>)),
                 Returns(<<" mime:">>),
                 formatted(path(document, <<"mime_type", "string">>)),
                 Returns(<<" size:">>),
                 formatted(path(document, <<"size">>)),
                 names(entries(path(document,
                                    <<"document_attributes_array">>)))>>)
      asserted(has_document) ==
        IF has_document.raised # "None" THEN has_document
        ELSE IF ~truthy(has_document.val) THEN Raises("AssertionError")
        ELSE described(path(Returns(media), <<"document", "document">>))
  IN asserted(path(Returns(media), <<"flags", "has_document">>))

\* __message_media, the photo of media
media_photo(media) ==
  LET located(ps, fl) ==
        format(<<quiet(fl), Returns(<<" ">>), formatted(attribute(ps, "w")),
                 Returns(<<"x">>), formatted(attribute(ps, "h")),
                 Returns(<<"(">>), formatted(attribute(ps, "size")),
                 Returns(<<" bytes):">>), formatted(path(fl, <<"volume_id">>)),
                 Returns(<<"_">>), formatted(path(fl, <<"local_id">>)),
                 Returns(<<".jpg">>)>>)
      size(ps) ==
        IF ps.raised # "None" THEN ps
        ELSE IF ~truthy(getattr(ps.val, "file_location")) THEN Returns(<<>>)
        ELSE located(ps.val,
                     path(ps, <<"file_location", "file_location">>))
      sizes(array) ==
        IF array.raised # "None" THEN array
        ELSE format([i \in 1..Len(array.val) |->
                       size(attribute(array.val[i], "photo_size"))])
      described(photo) ==
        format(<<Returns(<<"photo id:">>), formatted(path(photo, <<"id">>)),
                 Returns(<<" date:">>),
                 to_date_of(path(photo, <<"date", "epoch">>)),
                 sizes(entries(path(photo, <<"photo_size_array">>)))>>)
      asserted(has_photo) ==
        IF has_photo.raised # "None" THEN has_photo
        ELSE IF ~truthy(has_photo.val) THEN Raises("AssertionError")
        ELSE described(path(Returns(media), <<"photo", "photo">>))
  IN asserted(path(Returns(media), <<"flags", "has_photo">>))

\* __message_media, the webpage of media
media_webpage(media) ==
  LET string(webpage, name, label) ==
        IF ~truthy(getattr(webpage, name)) THEN Returns(<<>>)
        ELSE format(<<Returns(<<label>>),
                      formatted(path(Returns(webpage), <<name, "string">>))>>)
      described(webpage) ==
        IF webpage.raised # "None" THEN webpage
        ELSE format(<<IF truthy(getattr(webpage.val, "url"))
                      THEN quiet(path(webpage, <<"url", "string">>))
                      ELSE Returns(<<>>),
                      Returns(<<"webpage id:">>),
                      formatted(attribute(webpage.val, "id")),
                      Returns(<<" url:">>),
                      IF truthy(getattr(webpage.val, "url"))
                      THEN formatted(path(webpage, <<"url", "string">>))
                      ELSE Returns(<<>>),
                      string(webpage.val, "title", " title:"),
                      string(webpage.val, "description", " description:")>>)
  IN described(path(Returns(media), <<"webpage", "webpage">>))

\* __message_media: the text about the media of the blob, '' for None
message_media(mid, blob) ==
  LET of(media) ==
        IF media.raised # "None" THEN media
        ELSE IF truthy(getattr(media.val, "document"))
        THEN media_document(media.val)
        ELSE IF truthy(getattr(media.val, "photo"))
        THEN media_photo(media.val)
        ELSE IF truthy(getattr(media.val, "webpage"))
        THEN media_webpage(media.val)
        ELSE formatted(attribute(media.val, "sname"))
  IN IF ~truthy(mid) THEN Raises("AssertionError")
     ELSE IF ~truthy(getattr(blob, "media")) THEN Returns(<<>>)
     ELSE of(path(Returns(blob), <<"media", "media">>))

\* The value v that subcon gave, after 'del action_copy[...]' has taken the
\* entry signature from the Container in its entry action.
RECURSIVE deleted(_, _)
deleted(subcon, v) ==
  IF subcon[1] = "If" THEN Some(deleted(subcon[3], v[1]))
  ELSE [v EXCEPT !.action =
          [name \in DOMAIN v.action \ {"signature"} |-> v.action[name]]]

\* tmessage.action_string_and_dict: the sname of the action of the blob,
\* its entries without _io and signature, which are deleted from the
\* Container of the blob itself, and the message afterwards; '' for None.
action_string_and_dict(msg) ==
  LET dict(fields, action_copy) ==
        format([i \in 1..Len(fields) |->
                  IF /\ "name" \in DOMAIN fields[i]
                     /\ fields[i].name \in DOMAIN action_copy.val
                     /\ fields[i].name # "signature"
                     /\ \A j \in 1..(i - 1) :
                          "name" \in DOMAIN fields[j]
                            => fields[j].name # fields[i].name
                  THEN item_of(fields[i].name,
                               attribute(action_copy, fields[i].name))
                  ELSE Returns(<<>>)])
      returned(sname, entries_of) ==
        IF first_raised(<<sname, entries_of>>) # "None"
        THEN [raised |-> first_raised(<<sname, entries_of>>)]
        ELSE [raised |-> "None", action |-> sname.val,
              action_dict |-> entries_of.val]
      del(action_copy, after) ==
        IF action_copy.raised # "None"
        THEN [raised |-> action_copy.raised, msg |-> msg]
        ELSE IF action_copy.val.kind \notin {"Container", "flags"}
        THEN [raised |-> "TypeError", msg |-> msg]
        ELSE IF action_copy.val.kind = "flags"
                \/ "signature" \notin DOMAIN action_copy.val.val
        THEN [raised |-> "KeyError", msg |-> msg]
        ELSE [msg |-> after]
               @@ returned(formatted(attribute(action_copy.val, "sname")),
                           dict(action_copy.val.sub[2], action_copy.val))
  IN IF ~truthy(getattr(msg.value, "action"))
     THEN [raised |-> "None", action |-> <<>>, action_dict |-> <<>>,
           msg |-> msg]
     ELSE del(path(Returns(msg.value), <<"action", "action">>),
              [msg EXCEPT
                 !.blob =
                   Some([@[1] EXCEPT
                           !.action =
                             deleted(field_subcon(msg.value.sub, "action"),
                                     @)]),
                 !.value.val.action.val.action =
                   Printed([@ EXCEPT
                              !.val = [name \in DOMAIN @ \ {"signature"} |->
                                         @[name]]]),
                 !.value.val.action = Printed(@),
                 !.value = Printed(@)])

\* __messages_to_timeline, the first part of the body of the loop, up to
\* the type of the row.
message_row(db, msg) ==
  LET named(sid, id) ==
        IF first_raised(<<sid, id>>) # "None"
        THEN Raises(first_raised(<<sid, id>>))
        ELSE Returns(<<sid.val, id.val>>)
      from(from_id) ==
        IF from_id.raised # "None" THEN from_id
        ELSE IF ~truthy(from_id.val) THEN Returns(<<<<>>, <<>>>>)
        ELSE IF lookup(db, "users", from_id.val) = None
        THEN named(formatted(from_id), formatted(from_id))
        ELSE named(users_shortest_id(db, from_id.val), formatted(from_id))
      to_chat(chat) ==
        IF chat = None THEN Returns(<<>>) ELSE tchat_shortest_id(chat[1])
      row(raised, from_id, ds, dialog, to_id, to_who, type) ==
        IF raised # "None" THEN Raises(raised)
        ELSE Returns([trow EXCEPT
                        !.source = <<"messages">>,
                        !.id = format_int(msg.key),
                        !.from_who = from_id.val[1],
                        !.from_id = from_id.val[2],
                        !.extra =
                          <<<<<<"dialog">>, format_int(ds.val[1])>>,
                            <<<<"sequence">>, format_int(ds.val[2])>>>>,
                        !.dialog = dialog.val[1],
                        !.dialog_type = dialog.val[2],
                        !.to_who = to_who.val,
                        !.to_id = to_id.val,
                        !.type = type.val])
      read(from_id, ds, dialog, to_id, to_who, type) ==
        row(first_raised(<<from_id, ds, dialog, to_id, to_who, type>>),
            from_id, ds, dialog, to_id, to_who, type)
      of(ds, to) ==
        read(from(attribute(msg.value, "from_id")),
             ds,
             IF ds.raised # "None" THEN ds ELSE dialog_of(db, ds.val[1]),
             IF to.raised # "None" THEN to
             ELSE IF ~truthy(to.val[1]) THEN Raises("AssertionError")
             ELSE str(to.val[1]),
             IF to.raised # "None" THEN to
             ELSE IF to.val[2] = "chat"
             THEN users_shortest_id(db, to.val[1])
             ELSE IF to.val[2] = "channel" /\ ds.raised = "None"
                     /\ ~equals(ds.val[1], to.val[1])
             THEN Raises("AssertionError")
             ELSE IF to.val[2] = "channel"
             THEN to_chat(lookup(db, "chats", to.val[1]))
             ELSE Returns(<<>>),
             formatted(attribute(msg.value, "sname")))
  IN of(dialog_and_sequence(msg.key, row_of(db, "messages", msg.key).uid),
        to_id_and_type(msg.value))

\* __messages_to_timeline, the body of the loop.  action_string_and_dict
\* deletes from the Container of the blob.  For a message with a
\* blob_reply, 'replied_msg = msg' names the object of the table, so
\* 'replied_msg.blob = msg.blob_reply' and 'replied_msg.blob_reply = None'
\* assign to it; what follows reads msg.blob, the reply by then.
messages_to_timeline(db, msg) ==
  LET content(action, text_of) ==
        IF text_of.raised # "None" THEN text_of
        ELSE IF action.action # <<>>
        THEN (IF text_of.val # <<>> THEN Raises("AssertionError")
              ELSE Returns(action.action))
        ELSE Returns(strip_quotes(text_of.val))
      reply_to(acted, replied, text_of) ==
        IF acted.blob_reply = None THEN Returns(<<>>)
        ELSE format(<<Returns(<<" [IS REPLY TO MSG ID ">>),
                      formatted(attribute(replied.value, "id")),
                      Returns(<<" ">>),
                      to_date_of(Returns(message_date_from_blob(
                                           replied.value))),
                      Returns(<<"]\n">>),
                      IF text_of.raised # "None" THEN text_of
                      ELSE Returns(strip_quotes(text_of.val))>>)
      forwarded(fwd_from) ==
        IF ~truthy(fwd_from) THEN Returns(<<>>)
        ELSE format(<<Returns(<<" [FORWARDED OF MSG BY ">>),
                      formatted(path(Returns(fwd_from),
                                <<"fwd_from", "from_id">>)),
                      Returns(<<" ">>),
                      to_date_of(path(Returns(fwd_from),
                                      <<"fwd_from", "date", "epoch">>)),
                      Returns(<<"]">>)>>)
      viewed(views) ==
        IF ~truthy(views) THEN Returns(<<>>)
        ELSE item_of("views", Returns(views))
      yielded(raised, row, action, replied, text_of, reply, fwd_from, views,
              media, date) ==
        IF raised # "None" THEN Yielded(raised, <<>>, replied, <<>>)
        ELSE Yielded("None",
                     <<[row EXCEPT
                          !.extra = update(update(@, action.action_dict),
                                           views.val),
                          !.content =
                            text_of.val \o reply.val \o fwd_from.val,
                          !.media = escape_csv_string(media.val),
                          !.timestamp = date.val]>>,
                     replied, <<>>)
      read(row, action, replied, text_of, reply, fwd_from, views, media,
           date) ==
        yielded(first_raised(<<reply, fwd_from, views, media, date>>),
                row, action, replied, text_of, reply, fwd_from, views, media,
                date)
      after(row, action, acted, replied, text_of) ==
        IF text_of.raised # "None"
        THEN Yielded(text_of.raised, <<>>, acted, <<>>)
        ELSE read(row, action, replied, text_of,
                  reply_to(acted, replied, message_content(replied.value)),
                  forwarded(getattr(replied.value, "fwd_from")),
                  viewed(getattr(replied.value, "views")),
                  message_media(msg.key, replied.value),
                  to_date_of(Returns(message_date_from_blob(replied.value))))
      acting(row, action, acted) ==
        IF action.raised # "None"
        THEN Yielded(action.raised, <<>>, acted, <<>>)
        ELSE after(row, action, acted,
                   IF acted.blob_reply # None
                   THEN [acted EXCEPT !.blob = acted.blob_reply,
                                      !.blob_reply = None,
                                      !.value = acted.reply_value,
                                      !.reply_value = NoneValue]
                   ELSE acted,
                   content(action, message_content(acted.value)))
      of(first, action) ==
        IF first.raised # "None" THEN Yielded(first.raised, <<>>, msg, <<>>)
        ELSE acting(first.val, action, action.msg)
  IN of(message_row(db, msg), action_string_and_dict(msg))

\* The tables create_timeline goes through, in its order.
Generators == <<"chats", "dialogs", "enc_chats", "users", "messages">>

\* The body of the loop of __<t>_to_timeline for one object
to_timeline(db, t, object) ==
  CASE t = "chats" -> chats_to_timeline(db, object)
    [] t = "dialogs" -> dialogs_to_timeline(db, object)
    [] t = "enc_chats" -> enc_chats_to_timeline(db, object)
    [] t = "users" -> users_to_timeline(db, object)
    [] t = "messages" -> messages_to_timeline(db, object)

\* create_timeline after the body of the loop has left y for object
\* number k of generator number g: the rows yielded are written, one line
\* each.
RECURSIVE timeline_from(_, _, _, _)
timeline_written(db, g, k, st, y) ==
  IF y.raised # "None"
  THEN [st EXCEPT !.raised = y.raised,
                  !.lines = @ \o [j \in 1..Len(y.rows) |->
                                    to_row_string(y.rows[j], CSV_SEPARATOR)],
                  !.tables[TableNumber(Generators[g])][k] =
                    object_of(y.object),
                  !.log = @ \o y.log]
  ELSE timeline_from(
         db, g, k + 1,
         [st EXCEPT !.lines = @ \o [j \in 1..Len(y.rows) |->
                                      to_row_string(y.rows[j], CSV_SEPARATOR)],
                    !.tables[TableNumber(Generators[g])][k] =
                      object_of(y.object),
                    !.log = @ \o y.log])

\* create_timeline from object number k of generator number g on, st what
\* it has left so far: the exception raised, the lines written to
\* timeline.csv, the tables and the logger calls.  An exception ends it,
\* with the lines written until then.
timeline_from(db, g, k, st) ==
  IF g > Len(Generators) THEN st
  ELSE IF k > Len(db.tables[TableNumber(Generators[g])])
  THEN timeline_from(db, g + 1, 1, st)
  ELSE timeline_written(db, g, k, st,
                        to_timeline(db, Generators[g],
                                    db.tables[TableNumber(Generators[g])][k]))

\* create_timeline
create_timeline(db) ==
  timeline_from(values_of(db), 1, 1,
                [raised |-> "None",
                 lines |-> <<join(<<CSV_SEPARATOR>>, fieldsnames)>>,
                 tables |-> db.tables, log |-> <<>>])

\* The tdb after save_parsed_tables has left r: the files are kept, one
\* set for each call.
Saved(db, r) ==
  [db EXCEPT !.pc = IF r.raised # "None" THEN "raised"
                    ELSE IF @ = "done" THEN "saved" ELSE @,
             !.raised = r.raised,
             !.dumps = Append(@, r.files)]

\* The tdb after create_timeline has left r: the lines of timeline.csv are
\* kept, one file for each call.
Timelined(db, r) ==
  [db EXCEPT !.pc = IF r.raised # "None" THEN "raised" ELSE "timeline",
             !.raised = r.raised,
             !.tables = r.tables,
             !.log = @ \o r.log,
             !.timelines = Append(@, r.lines)]

\* teleparser.process calls save_parsed_tables once parse has returned.
SaveParsedTables ==
  /\ teledb # None
  /\ teledb[1].pc = "done"
  /\ teledb' = Some(Saved(teledb[1], save_parsed_tables(teledb[1])))
  /\ UNCHANGED <<callbacks, op, data, outcome, ref>>

\* teleparser.process calls create_timeline once the tables are saved, and
\* returns.
CreateTimeline ==
  /\ teledb # None
  /\ teledb[1].pc = "saved"
  /\ teledb' = Some(Timelined(teledb[1], create_timeline(teledb[1])))
  /\ UNCHANGED <<callbacks, op, data, outcome, ref>>

\* The number of times save_parsed_tables, and create_timeline, are called
\* on a tdb by a caller that goes on after teleparser.process has returned.
MaxOutputs == 2

\* A caller that goes on with the tdb calls save_parsed_tables as
\* teleparser.process does, and again once the timeline is made.
SaveParsedTablesAgain ==
  /\ teledb # None
  /\ \/ teledb[1].pc = "done"
     \/ /\ teledb[1].pc = "timeline"
        /\ Len(teledb[1].dumps) < MaxOutputs
  /\ teledb' = Some(Saved(teledb[1], save_parsed_tables(teledb[1])))
  /\ UNCHANGED <<callbacks, op, data, outcome, ref>>

\* A caller that goes on with the tdb calls create_timeline as
\* teleparser.process does, and again once the timeline is made.
CreateTimelineAgain ==
  /\ teledb # None
  /\ \/ teledb[1].pc = "saved"
     \/ /\ teledb[1].pc = "timeline"
        /\ Len(teledb[1].timelines) < MaxOutputs
  /\ teledb' = Some(Timelined(teledb[1], create_timeline(teledb[1])))
  /\ UNCHANGED <<callbacks, op, data, outcome, ref>>

\* Blobs of the rows: a whole user_empty record with id 1; 8 bytes with a
\* tag that is not registered; the user_empty record cut in the middle of
\* its id.
GoodBlob == UserEmptyInput(<<0, 1>>)

UnknownTagBlob == le32(<<57005, 48879>>) \o Body(4)

TruncatedBlob == Take(UserEmptyInput(<<0, 1>>), 5)

\* A whole message, to a user, with the text "hi".
MessageBlob ==
  MessageInput(<<0, 0>>, le32(<<40369, 48237>>) \o le32(<<0, 42>>),
               <<104, 105>>, <<>>)

RowBlobs == {GoodBlob, UnknownTagBlob, TruncatedBlob}

\* A whole message (no from_id, to the user 42) with flag word f, the date
\* epoch and the text.
MessageAt(f, epoch, text) ==
  le32(<<17708, 3685>>) \o le32(f) \o le32(<<0, 5>>)
    \o le32(<<40369, 48237>>) \o le32(<<0, 42>>)
    \o le32(<<epoch \div 65536, epoch % 65536>>) \o EncodeString(text)
    \o (IF message_struct_flags(f).has_views THEN le32(<<0, 3>>) ELSE <<>>)

\* A whole user, the owner (is_self, id 1000), with the first name.
UserNamed(first_name) ==
  le32(<<37764, 22721>>) \o le32(<<0, 1026>>) \o le32(<<0, 1000>>)
    \o EncodeString(first_name)

\* The dates of the rows, in this order in time: that of the dialog, the
\* key_date of the encrypted chat, the status of the owner, and the early,
\* middle and late dates of the messages.
RowDates ==
  <<1500000000, 1510000000, 1520000000, 1530000000, 1540000000, 1550000000>>

\* A database every row of which decodes and is whole: no chat, a dialog,
\* an encrypted chat whose data column holds no bytes, the owner with the
\* first name, and two messages of the dialog with the owner, the second
\* of the middle date; message is the blob of the first and reply that of the
\* message it replies to (None when it replies to none).
TimelineDatabase(first_name, message, reply) ==
  [chats |-> <<>>,
   contacts |-> <<[uid |-> int_value(1000), mutual |-> int_value(1)]>>,
   dialogs |-> <<[did |-> int_value(1000), date |-> int_value(RowDates[1]), unread_count |-> int_value(0),
                  inbox_max |-> int_value(41), outbox_max |-> int_value(40), pts |-> int_value(7),
                  last_mid |-> int_value(41)]>>,
   enc_chats |-> <<[uid |-> int_value(20), user |-> int_value(1000), admin_id |-> int_value(1000),
                    name |-> <<"n">>, ttl |-> int_value(0), seq_in |-> int_value(1), seq_out |-> int_value(2),
                    key_date |-> int_value(RowDates[2]), data |-> None]>>,
   media_v2 |-> <<>>,
   messages |-> <<[mid |-> int_value(40), uid |-> int_value(1000), data |-> message,
                   replydata |-> reply],
                  [mid |-> int_value(41), uid |-> int_value(1000),
                   data |-> MessageAt(<<0, 0>>, RowDates[5], <<104, 105>>),
                   replydata |-> None]>>,
   sent_files_v2 |-> <<>>,
   users |-> <<[uid |-> int_value(1000), status |-> int_value(RowDates[3]),
                data |-> UserNamed(first_name)]>>,
   user_settings |-> <<>>,
   missing |-> {}]

\* The first names "F" and "A,B"; the first message early or late, with
\* views or without; the message it replies to, when there is one, of the
\* other date, with the text "yo" and no views.
TimelineDatabases ==
  {TimelineDatabase(first_name, MessageAt(f, date, <<104, 105>>), reply) :
     first_name \in {<<70>>, <<65, 44, 66>>},
     f \in {<<0, 0>>, <<0, 1024>>},
     date \in {RowDates[4], RowDates[6]},
     reply \in {None,
                Some(MessageAt(<<0, 0>>, RowDates[4], <<121, 111>>)),
                Some(MessageAt(<<0, 0>>, RowDates[6], <<121, 111>>))}}

\* Blobs of a chat: a channel_forbidden_layer67 with id 10, flag word f and
\* the title "T" (broadcast; broadcast and megagroup), and a chat_empty.
ChannelBlob(f) ==
  le32(<<34103, 30799>>) \o le32(f) \o le32(<<0, 10>>) \o le32(<<0, 0>>)
    \o le32(<<0, 0>>) \o EncodeString(<<84>>)

ChatBlobs ==
  {ChannelBlob(<<0, 32>>), ChannelBlob(<<0, 288>>),
   le32(<<39842, 55296>>) \o le32(<<0, 10>>)}

\* A whole message with id 5, of the early date and with the text "hi": its
\* flag word f, its to_id, what follows to_id and what follows the text.
ContentMessage(f, peer, fwd_from, media) ==
  le32(<<17708, 3685>>) \o le32(f) \o le32(<<0, 5>>) \o peer \o fwd_from
    \o le32(<<RowDates[4] \div 65536, RowDates[4] % 65536>>)
    \o EncodeString(<<104, 105>>) \o media

\* The uid of the row of a message and its blob: a message forwarded from
\* user 7 (a message_fwd_header_layer68 of the date of the dialog); one
\* with a web_page_empty as media; a message_service whose action is
\* message_action_chat_delete_user of user 7, one whose action is
\* message_action_chat_create with the title "T'" and the users 7 and 8,
\* and one whose action is message_action_phone_call, of 60 seconds, a
\* video call that was missed; a message to the channel 10, in the row of
\* the dialog with it and in that of the dialog with the owner.
ContentMessages ==
  {<<1000,
     ContentMessage(<<0, 4>>, le32(<<40369, 48237>>) \o le32(<<0, 42>>),
                    le32(<<51078, 56779>>) \o le32(<<0, 1>>)
                      \o le32(<<0, 7>>)
                      \o le32(<<RowDates[1] \div 65536,
                                RowDates[1] % 65536>>),
                    <<>>)>>,
   <<1000,
     ContentMessage(<<0, 512>>, le32(<<40369, 48237>>) \o le32(<<0, 42>>),
                    <<>>,
                    le32(<<41773, 54784>>) \o le32(<<60180, 30696>>)
                      \o le32(<<1, 3>>) \o le32(<<0, 2>>))>>,
   <<1000,
     le32(<<40473, 41462>>) \o le32(<<0, 0>>) \o le32(<<0, 5>>)
       \o le32(<<40369, 48237>>) \o le32(<<0, 42>>)
       \o le32(<<RowDates[4] \div 65536, RowDates[4] % 65536>>)
       \o le32(<<45742, 39692>>) \o le32(<<0, 7>>)>>,
   <<1000,
     le32(<<40473, 41462>>) \o le32(<<0, 0>>) \o le32(<<0, 5>>)
       \o le32(<<40369, 48237>>) \o le32(<<0, 42>>)
       \o le32(<<RowDates[4] \div 65536, RowDates[4] % 65536>>)
       \o le32(<<42595, 35738>>) \o EncodeString(<<84, 39>>)
       \o le32(<<7349, 50197>>) \o le32(<<0, 2>>) \o le32(<<0, 7>>)
       \o le32(<<0, 8>>)>>,
   <<1000,
     le32(<<40473, 41462>>) \o le32(<<0, 0>>) \o le32(<<0, 5>>)
       \o le32(<<40369, 48237>>) \o le32(<<0, 42>>)
       \o le32(<<RowDates[4] \div 65536, RowDates[4] % 65536>>)
       \o le32(<<32993, 6783>>) \o le32(<<0, 7>>) \o le32(<<0, 9>>)
       \o le32(<<0, 0>>) \o le32(<<34276, 8961>>) \o le32(<<0, 60>>)>>,
   <<0 - 10,
     ContentMessage(<<0, 0>>, le32(<<48605, 58674>>) \o le32(<<0, 10>>),
                    <<>>, <<>>)>>,
   <<1000,
     ContentMessage(<<0, 0>>, le32(<<48605, 58674>>) \o le32(<<0, 10>>),
                    <<>>, <<>>)>>}

\* A database every row of which decodes and is whole, with a chat, the
\* owner with the first name and a first message.
ContentDatabase(chat, first_name, message) ==
  [TimelineDatabase(first_name, message[2], None) EXCEPT
     !.chats = <<[uid |-> int_value(10), data |-> chat]>>,
     !.messages[1].uid = int_value(message[1])]

\* The first names "F" and a byte that is not UTF-8
ContentDatabases ==
  {ContentDatabase(chat, first_name, message) :
     chat \in ChatBlobs, first_name \in {<<70>>, <<255>>},
     message \in ContentMessages}

\* A database whose columns other than the blobs are well formed, with one
\* user that is the owner (is_self, id 1000): the blobs of a chat, of an encrypted chat (None
\* when the column holds no bytes), of a message and of the message it
\* replies to (None when it replies to none), of a second user, and
\* whether it has the user_settings table.  A whole row follows each row
\* whose blob varies.
Database(chat, enc, message, reply, user, settings) ==
  [chats |-> <<[uid |-> int_value(10), data |-> chat], [uid |-> int_value(11), data |-> GoodBlob]>>,
   contacts |-> <<[uid |-> int_value(1000), mutual |-> int_value(1)]>>,
   dialogs |-> <<[did |-> int_value(1000), date |-> int_value(RowDates[1]), unread_count |-> int_value(0),
                  inbox_max |-> int_value(41), outbox_max |-> int_value(40), pts |-> int_value(7),
                  last_mid |-> int_value(41)]>>,
   enc_chats |-> <<[uid |-> int_value(20), user |-> int_value(1000), admin_id |-> int_value(1000),
                    name |-> <<"n">>, ttl |-> int_value(0), seq_in |-> int_value(1), seq_out |-> int_value(2),
                    key_date |-> int_value(0), data |-> enc],
                   [uid |-> int_value(21), user |-> int_value(1000), admin_id |-> int_value(1000),
                    name |-> <<>>, ttl |-> int_value(0), seq_in |-> int_value(1), seq_out |-> int_value(2),
                    key_date |-> int_value(RowDates[2]), data |-> Some(GoodBlob)]>>,
   media_v2 |-> <<[mid |-> int_value(30), uid |-> int_value(1000),
                   date |-> int_value(RowDates[1]), data |-> GoodBlob]>>,
   messages |-> <<[mid |-> int_value(40), uid |-> int_value(1000), data |-> message,
                   replydata |-> reply],
                  [mid |-> int_value(41), uid |-> int_value(1000), data |-> MessageBlob,
                   replydata |-> None]>>,
   sent_files_v2 |-> <<[uid |-> int_value(50), data |-> GoodBlob]>>,
   users |-> <<[uid |-> int_value(1000), status |-> int_value(RowDates[3]),
                data |-> UserInput(<<0, 1026>>, "user_status_offline")],
               [uid |-> int_value(1), status |-> int_value(0), data |-> user]>>,
   user_settings |-> <<[uid |-> int_value(1000), info |-> GoodBlob]>>,
   missing |-> IF settings THEN {} ELSE {"user_settings"}]

\* A database every row of which decodes and is whole, with the channel 10
\* and a message to it in the row of the dialog with it: the did of the
\* dialog (1000, and 20 << 32, the dialog of the encrypted chat 20) and its
\* date (that of the other databases, and the first second of the year
\* 10000); the key_date of the encrypted chat (that of the other databases,
\* and 2 ^ 56), and the mid and the uid of the row of the message (40, and
\* 10 << 32 | 5 and its negative, with the uid -10; 10 << 32 | 5 with the
\* uid 10).
WideDatabases ==
  {[ContentDatabase(ChannelBlob(<<0, 32>>), <<70>>,
                    <<0 - 10,
                      ContentMessage(<<0, 0>>,
                                     le32(<<48605, 58674>>) \o le32(<<0, 10>>),
                                     <<>>, <<>>)>>)
      EXCEPT !.dialogs[1].did = did,
             !.dialogs[1].date = date,
             !.enc_chats[1].key_date = key_date,
             !.messages[1].mid = message[1],
             !.messages[1].uid = message[2]] :
     did \in {int_value(1000), Value("int", <<20, 0, 0>>, <<>>)},
     date \in {int_value(RowDates[1]),
               Value("int", <<58, 65524, 16768>>, <<>>)},
     key_date \in {int_value(RowDates[2]), Value("int", <<256, 0, 0, 0>>, <<>>)},
     message \in {<<int_value(40), int_value(0 - 10)>>,
                  <<Value("int", <<10, 0, 5>>, <<>>), int_value(0 - 10)>>,
                  <<Value("int", <<10, 0, 5>>, <<"-">>), int_value(0 - 10)>>,
                  <<Value("int", <<10, 0, 5>>, <<>>), int_value(10)>>}}

Databases ==
  {Database(chat, enc, message, reply, user, settings) :
     chat \in RowBlobs,
     enc \in {None, Some(GoodBlob), Some(TruncatedBlob)},
     message \in {MessageBlob, UnknownTagBlob, TruncatedBlob},
     reply \in {None, Some(TruncatedBlob)}, user \in RowBlobs,
     settings \in BOOLEAN}
    \cup TimelineDatabases \cup ContentDatabases \cup WideDatabases

\* teleparser.process: a new tblob and a tdb over the database.
InitDb ==
  /\ callbacks = tblob_init
  /\ op = "init"
  /\ data = <<>>
  /\ outcome = NoOutcome
  /\ ref = None
  /\ teledb \in {Some(tdb_init(db)) : db \in Databases}

NextDb ==
  \/ ParseCall
  \/ ParseEntry
  \/ ParseTableEnd
  \/ SaveParsedTables
  \/ CreateTimeline

SpecDb == InitDb /\ [][NextDb]_vars

\* teleparser.process, and the calls of a caller that goes on with the tdb.
NextDbAgain ==
  \/ ParseCall
  \/ ParseEntry
  \/ ParseTableEnd
  \/ SaveParsedTablesAgain
  \/ CreateTimelineAgain

SpecDbAgain == InitDb /\ [][NextDbAgain]_vars

\* parse runs on: a step that can be taken is taken.
FairSpecDb == SpecDb /\ WF_vars(NextDb)

(***************************************************************************)
(* Properties                                                              *)
(***************************************************************************)
\* The first 4 bytes of a buffer as a little-endian unsigned 32-bit tag.
TagOf(d) ==
  LET b(i) == IF i <= Len(d) THEN d[i] ELSE 0
  IN <<b(4) * 256 + b(3), b(2) * 256 + b(1)>>

RegistryKeys == {i[1] : i \in tdss_callbacks_items}

EntryOf(tag) == (CHOOSE i \in tdss_callbacks_items : i[1] = tag)[2]

HeaderOf(decoder) == CHOOSE h \in struct_headers : h[1] = decoder

Logged(level, msg) ==
  {i \in 1..Len(outcome.log) :
     outcome.log[i].level = level /\ outcome.log[i].msg = msg}

\* C1: a buffer whose little-endian tag is not a key of the registry makes
\* parse_blob return None without raising and without invoking a decoder,
\* and an error naming the tag in hexadecimal is logged.
C1_UnknownTagIsReported ==
  (op = "parse_blob" /\ TagOf(data) \notin RegistryKeys) =>
    /\ outcome.raised = "None"
    /\ outcome.pblob = None
    /\ outcome.invoked = "None"
    /\ \E i \in Logged("error", "unknown signature %s") :
         outcome.log[i].args = <<hex(TagOf(data))>>

C1_Witness ==
  /\ op = "parse_blob"
  /\ data = <<239, 190, 173, 222, 1, 0, 0, 0, 7>>
  /\ outcome.pblob = None
  /\ outcome.log = <<LogCall("error", "unknown signature %s", <<"0xdeadbeef">>)>>

\* C2: for a tag registered with an absent decoder parse_blob does not
\* raise, returns None and logs a warning with the canonical name and the
\* tag, whatever follows the tag.
C2_AbsentDecoderIsDefinedFailure ==
  (op = "parse_blob" /\ TagOf(data) \in RegistryKeys
     /\ EntryOf(TagOf(data))[1] = "None") =>
    /\ outcome.raised = "None"
    /\ outcome.pblob = None
    /\ \E i \in Logged("warning", "blob '%s' [%s] not supported") :
         outcome.log[i].args = <<EntryOf(TagOf(data))[2], hex(TagOf(data))>>

\* C3: every entry of the registry held by the instance has exactly three
\* components (decoder or None, canonical name, flag).
C3_EntriesHaveThreeComponents ==
  \A signature \in DOMAIN callbacks : Len(callbacks[signature]) = 3

\* C4: when a decoder of a shape without the UNPARSED field ends at an
\* offset that differs from the length of the input, parse_blob logs an
\* error that lists the bytes from that offset on and still returns the
\* record.
C4_MismatchIsLoggedRecordReturned ==
  (/\ op = "parse_blob"
   /\ outcome.invoked # "None"
   /\ ~HeaderOf(outcome.invoked)[4]
   /\ outcome.tell # None
   /\ outcome.tell # Some(Len(data))) =>
    /\ outcome.raised = "None"
    /\ outcome.pblob # None
    /\ \E i \in Logged("error",
           "Not all data parsed for object: %s [0x%x], input: %d, parsed: %d, missed: %s") :
         /\ outcome.log[i].args[3] = Len(data)
         /\ outcome.log[i].args[4] = outcome.tell[1]
         /\ outcome.log[i].args[5] = Drop(data, outcome.tell[1])

C4_Witness ==
  /\ op = "parse_blob"
  /\ data = <<186, 80, 2, 32, 1, 0, 0, 0, 7>>
  /\ outcome.tell = Some(8)
  /\ outcome.pblob # None
  /\ outcome.pblob[1].id = <<0, 1>>
  /\ \E i \in 1..Len(outcome.log) : outcome.log[i].args[5] = <<7>>

\* C5: for the message shape, which ends with UNPARSED, the bytes that
\* follow the last modelled field are the value of UNPARSED; parse_blob
\* returns the record, and logs a warning with their number when there are
\* any.
C5_TrailingBytesAreCaptured ==
  \A f \in MessageFlagWords, p \in KnownPeers, t \in MessageTexts,
     u \in MessageTrailing :
    (op = "parse_blob" /\ data = MessageInput(f, p, t, u)) =>
      /\ outcome.raised = "None"
      /\ outcome.pblob # None
      /\ outcome.pblob[1].UNPARSED = u
      /\ (u # <<>> =>
            \E i \in Logged("warning",
                  "Object: %s [0x%x] contains unparsed data [%d bytes], see UPARSED field") :
              outcome.log[i].args[3] = Len(u))
      /\ (u = <<>> =>
            Logged("warning",
                   "Object: %s [0x%x] contains unparsed data [%d bytes], see UPARSED field") = {})

C5_Witness ==
  /\ op = "parse_blob"
  /\ outcome.invoked = "message_struct"
  /\ outcome.pblob # None
  /\ outcome.pblob[1].UNPARSED = <<9, 9, 9, 9, 9>>
  /\ outcome.pblob[1].views = Some(<<0, 3>>)
  /\ \E i \in 1..Len(outcome.log) :
       outcome.log[i].level = "warning" /\ outcome.log[i].args[3] = 5

\* C6: a parse_blob call on a buffer has the same outcome as an earlier
\* parse_blob call of the same instance on that buffer, whatever calls were
\* made in between.
C6_SameBufferSameOutcome ==
  (op = "parse_blob" /\ ref # None /\ ref[1].calls >= 1
     /\ data = ref[1].data) =>
    outcome = ref[1].outcome

C6_Witness ==
  /\ op = "parse_blob"
  /\ ref # None
  /\ ref[1].calls = 2
  /\ data = ref[1].data
  /\ outcome.pblob # None
  /\ outcome = ref[1].outcome

\* C7: no parse_blob call changes the registry of the instance.
C7_RegistryIsReadOnly == [][callbacks' = callbacks]_vars

C7_Witness ==
  /\ op = "parse_blob"
  /\ outcome.raised = "StreamError"
  /\ callbacks = tdss_callbacks

\* C8: every decoder of the registry asserts, as the constant of its
\* 'signature' field, the key it is registered under.
C8_DecoderAssertsItsKey ==
  \A signature \in DOMAIN callbacks :
    callbacks[signature][1] # "None" =>
      HeaderOf(callbacks[signature][1])[3] = Some(signature)

\* The payload length and the number of padding bytes read by the last
\* tstring_struct or tbytes_struct call.
PayloadLen ==
  IF op = "tstring_struct" THEN Len(outcome.pblob[1]._value)
  ELSE Len(outcome.pblob[1].bytes)

LongForm == outcome.pblob[1]._check[1] >= 254

\* The stream offset at the end less the length prefix (4 bytes in the long
\* form, 1 in the short form) and the payload.
PaddingRead ==
  outcome.tell[1] - ((IF LongForm THEN 4 ELSE 1) + PayloadLen)

Decoded == op \in {"tstring_struct", "tbytes_struct"} /\ outcome.raised = "None"

\* C9: tstring and tbytes read (4 - (1 + L) % 4) % 4 padding bytes after a
\* payload of length L in the short form (0 <= L <= 253), and
\* (4 - L % 4) % 4 in the long form.
C9_PaddingLaw ==
  Decoded =>
    IF LongForm
    THEN PaddingRead = (4 - (PayloadLen % 4)) % 4
    ELSE /\ PayloadLen \in 0..253
         /\ PaddingRead = (4 - ((1 + PayloadLen) % 4)) % 4

C9_Witness ==
  /\ Decoded
  /\ op = "tstring_struct"
  /\ LongForm
  /\ PayloadLen = 254
  /\ PaddingRead = 2

\* C10 as stated: in the long form length % 4 padding bytes are read when
\* length % 4 is not zero, none when it is.
C10_PaddingIsRemainder ==
  (Decoded /\ LongForm) =>
    PaddingRead = (IF PayloadLen % 4 # 0 THEN PayloadLen % 4 ELSE 0)

\* C10, amended: in the long form 4 - length % 4 padding bytes are read
\* when length % 4 is not zero, none when it is.
C10_PaddingCompletesWord ==
  (Decoded /\ LongForm) =>
    PaddingRead = (IF PayloadLen % 4 # 0 THEN 4 - (PayloadLen % 4) ELSE 0)

C10_Witness ==
  /\ Decoded
  /\ op = "tbytes_struct"
  /\ LongForm
  /\ PayloadLen = 257
  /\ PaddingRead = 3

\* The length and the payload the last tstring_struct or tbytes_struct call
\* decoded.
DecodedLen ==
  IF op = "tstring_struct" THEN outcome.pblob[1]._len ELSE outcome.pblob[1].len

DecodedPayload ==
  IF op = "tstring_struct" THEN outcome.pblob[1]._value
  ELSE outcome.pblob[1].bytes

\* C11: when the first byte b of a tstring or tbytes is below 254 the length
\* is b and the payload is the b bytes that follow that one byte; when b is
\* 254 or more the length is the little-endian 32-bit integer of the first
\* 4 bytes shifted right by 8 (the 3 bytes after b), and the payload is the
\* bytes, that many, that follow those 4 bytes.
C11_LengthPrefix ==
  Decoded =>
    IF data[1] < 254
    THEN /\ DecodedLen = data[1]
         /\ outcome.pblob[1]._pl = data[1]
         /\ DecodedPayload = SubSeq(data, 2, 1 + data[1])
    ELSE /\ DecodedLen = data[2] + 256 * data[3] + 65536 * data[4]
         /\ outcome.pblob[1]._pl = from_bytes_little(SubSeq(data, 1, 4))
         /\ DecodedPayload = SubSeq(data, 5, 4 + DecodedLen)
         /\ Len(DecodedPayload) = DecodedLen

C11_Witness ==
  /\ Decoded
  /\ op = "tbytes_struct"
  /\ data[1] = 255
  /\ DecodedLen = 257
  /\ DecodedPayload = Repeat(97, 257)

\* The payloads of the length-prefixed values, each with its encoding.
RoundTrips ==
  {<<p, EncodeString(p)>> :
     p \in {Repeat(b, L) : b \in PayloadBytes, L \in 0..MaxLen}
            \cup TextPayloads}

\* C12: decoding the encoding of a payload (length prefix in the short form
\* below 254 bytes and in the long form from there on, zero padding to a
\* multiple of 4) with tstring or tbytes gives the payload and ends at the
\* end of the buffer; the tstring <<5>> "hello" <<0, 0>> decodes to "hello"
\* and ends at offset 8.
C12_RoundTrip ==
  \A rt \in RoundTrips :
    (op \in {"tstring_struct", "tbytes_struct"} /\ data = rt[2]) =>
      /\ outcome.raised = "None"
      /\ DecodedPayload = rt[1]
      /\ outcome.tell = Some(Len(data))
      /\ (op = "tstring_struct" /\ rt[1] = <<104, 101, 108, 108, 111>>) =>
           /\ outcome.pblob[1].string
                = [type |-> "str", value |-> <<104, 101, 108, 108, 111>>]
           /\ outcome.tell = Some(8)

C12_Witness ==
  /\ op = "tstring_struct"
  /\ data = <<5, 104, 101, 108, 108, 111, 0, 0>>
  /\ outcome.pblob[1].string.value = <<104, 101, 108, 108, 111>>
  /\ outcome.tell = Some(8)

\* The message texts that are not UTF-8.
InvalidTexts == {<<255>>, <<195, 40>>}

\* C13: a message whose text is not UTF-8 is decoded as a message with
\* valid text is: parse_blob returns the record, its 'message' string is the
\* payload as bytes, an error with the payload is logged, and the fields
\* that follow the text (views, post_author, restriction_reasons, UNPARSED)
\* have the values encoded after it, the decoder ending at the end of the
\* buffer.
C13_InvalidUtf8IsRecoverable ==
  \A f \in MessageFlagWords, p \in KnownPeers, t \in InvalidTexts,
     u \in MessageTrailing :
    (op = "parse_blob" /\ data = MessageInput(f, p, t, u)) =>
      /\ outcome.raised = "None"
      /\ outcome.pblob # None
      /\ outcome.pblob[1].message._value = t
      /\ outcome.pblob[1].message.string = [type |-> "bytes", value |-> t]
      /\ \E i \in Logged("error", "unable to decode string: %s") :
           outcome.log[i].args = <<t>>
      /\ outcome.pblob[1].views
           = (IF message_struct_flags(f).has_views THEN Some(<<0, 3>>)
              ELSE None)
      /\ (message_struct_flags(f).has_author =>
            outcome.pblob[1].post_author[1].string
              = [type |-> "str", value |-> <<97>>])
      /\ (message_struct_flags(f).is_restricted =>
            Len(outcome.pblob[1].restriction_reasons[1]
                  .restriction_reasons_array) = 1)
      /\ outcome.pblob[1].UNPARSED = u
      /\ outcome.tell = Some(Len(data))

C13_Witness ==
  /\ op = "parse_blob"
  /\ outcome.invoked = "message_struct"
  /\ outcome.pblob # None
  /\ outcome.pblob[1].message.string = [type |-> "bytes", value |-> <<195, 40>>]
  /\ outcome.pblob[1].views = Some(<<0, 3>>)
  /\ outcome.pblob[1].UNPARSED = <<9>>
  /\ Logged("error", "unable to decode string: %s") # {}

\* C14: in a peer_notify_settings_layer47 record the boolean show_previews
\* takes exactly 4 bytes; it is 'true' for 0x997275b5, 'false' for
\* 0xbc799737 and 'ERROR' for every other value, and in each case the field
\* that follows it, event_mask, is decoded from the next 4 bytes.
C14_BooleanPrimitive ==
  \A s \in {<<>>, <<104, 105>>}, b \in BoolWords, u \in {<<>>, <<9>>} :
    (op = "parse_blob" /\ data = NotifyInput(s, b, u)) =>
      /\ outcome.raised = "None"
      /\ outcome.pblob # None
      /\ outcome.pblob[1].show_previews._signature = b
      /\ outcome.pblob[1].show_previews.value
           = (IF b = <<39282, 30133>> THEN "true"
              ELSE IF b = <<48249, 38711>> THEN "false"
              ELSE "ERROR")
      /\ outcome.pblob[1].event_mask = <<0, 9>>
      /\ outcome.tell = Some(Len(data) - Len(u))

C14_Witness ==
  /\ op = "parse_blob"
  /\ outcome.invoked = "peer_notify_settings_layer47_struct"
  /\ outcome.pblob # None
  /\ outcome.pblob[1].show_previews._signature = <<46453, 29337>>
  /\ outcome.pblob[1].show_previews.value = "ERROR"
  /\ outcome.pblob[1].event_mask = <<0, 9>>

\* C15: parse_blob on the 4 bytes of the boolean signature 0x997275b5
\* returns a boolean of value true, the decoder ending at offset 4; on the
\* 4 bytes of 0xbc799737, of value false.
C15_BooleanBufferDecodes ==
  \A b \in {<<39282, 30133>>, <<48249, 38711>>} :
    (op = "parse_blob" /\ data = le32(b)) =>
      /\ outcome.raised = "None"
      /\ outcome.pblob # None
      /\ outcome.pblob[1].value
           = (IF b = <<39282, 30133>> THEN "true" ELSE "false")
      /\ outcome.tell = Some(4)

\* C16: a buffer that is a whole record of a shape without flags is decoded
\* to its last byte: parse_blob returns the record, the decoder ends at the
\* length of the buffer and no error about bytes that were not parsed is
\* logged; the tag 0x200250ba and a 4-byte id v give a user_empty record
\* with id v, the decoder ending at offset 8.
C16_ConsumedLength ==
  (op = "parse_blob" /\ data \in FlatInputs) =>
    /\ outcome.raised = "None"
    /\ outcome.pblob # None
    /\ outcome.tell = Some(Len(data))
    /\ Logged("error",
              "Not all data parsed for object: %s [0x%x], input: %d, parsed: %d, missed: %s")
         = {}
    /\ \A id \in UserIds :
         data = UserEmptyInput(id) =>
           /\ outcome.pblob[1].sname = "user_empty"
           /\ EntryOf(TagOf(data))[2] = "user_empty"
           /\ outcome.pblob[1].id = id
           /\ outcome.tell = Some(8)

C16_Witness ==
  /\ op = "parse_blob"
  /\ data = <<186, 80, 2, 32, 120, 86, 52, 18>>
  /\ outcome.pblob # None
  /\ outcome.pblob[1].sname = "user_empty"
  /\ outcome.pblob[1].id = <<4660, 22136>>
  /\ outcome.tell = Some(8)
  /\ outcome.log = <<>>

\* The vector of a bot_info record has as many elements as its count, in
\* the order of the buffer, each the bot_command its tag names; the vector
\* of a message_action_chat_create record, whose elements are Int32ul and
\* have no tag, has as many elements as its count, in the order of the
\* buffer.
EmbeddedVectorDecoded ==
  /\ \A c \in CommandLists :
       (op = "parse_blob" /\ data = BotInfoInput(Len(c), c)) =>
         /\ outcome.raised = "None"
         /\ outcome.pblob # None
         /\ outcome.pblob[1].bot_commands_num = <<0, Len(c)>>
         /\ Len(outcome.pblob[1].bot_commands_array) = Len(c)
         /\ \A i \in 1..Len(c) :
              /\ outcome.pblob[1].bot_commands_array[i].sname
                   = EntryOf(<<49786, 51399>>)[2]
              /\ outcome.pblob[1].bot_commands_array[i].command._value = c[i]
         /\ outcome.tell = Some(Len(data))
  /\ \A u \in UserLists :
       (op = "parse_blob" /\ data = ChatCreateInput(u)) =>
         /\ outcome.raised = "None"
         /\ outcome.pblob # None
         /\ outcome.pblob[1].users_num = <<0, Len(u)>>
         /\ outcome.pblob[1].users = u
         /\ outcome.tell = Some(Len(data))

\* C17 as stated: a vector (marker 0x1cb5c415, count N, N elements) decodes
\* to a sequence of N elements in the order of the buffer, and the vector
\* of the 2 peer_user elements 42 and 43 decodes to a sequence of length 2
\* whose elements have user_id 42 and 43.
C17_VectorDecoding ==
  /\ EmbeddedVectorDecoded
  /\ (op = "parse_blob"
        /\ data = PeerUserVectorInput(<<<<0, 42>>, <<0, 43>>>>)) =>
       /\ outcome.raised = "None"
       /\ outcome.pblob # None
       /\ Len(outcome.pblob[1]) = 2
       /\ outcome.pblob[1][1].user_id = <<0, 42>>
       /\ outcome.pblob[1][2].user_id = <<0, 43>>

\* C17, amended: a vector inside a record (marker 0x1cb5c415, count N, N
\* elements) decodes to a sequence of N elements in the order of the
\* buffer, an element that has a tag as the record its tag names; a buffer
\* that is a vector by itself is not decoded: parse_blob returns None and
\* logs that '_vector' is not supported.
C17_EmbeddedVectorDecoding ==
  /\ EmbeddedVectorDecoded
  /\ \A ids \in {<<>>, <<<<0, 42>>>>, <<<<0, 42>>, <<0, 43>>>>} :
       (op = "parse_blob" /\ data = PeerUserVectorInput(ids)) =>
         /\ outcome.raised = "None"
         /\ outcome.pblob = None
         /\ outcome.invoked = "None"
         /\ \E i \in Logged("warning", "blob '%s' [%s] not supported") :
              outcome.log[i].args = <<"_vector", "0x1cb5c415">>

C17_Witness ==
  /\ op = "parse_blob"
  /\ outcome.invoked = "bot_info_struct"
  /\ outcome.pblob # None
  /\ outcome.pblob[1].bot_commands_num = <<0, 2>>
  /\ Len(outcome.pblob[1].bot_commands_array) = 2
  /\ outcome.pblob[1].bot_commands_array[1].command._value = <<98, 99>>
  /\ outcome.pblob[1].bot_commands_array[2].command._value = <<97>>
  /\ outcome.tell = Some(Len(data))

\* An optional string field is present and has the value v.
StringIs(field, v) == field # None /\ field[1].string.value = v

\* C18: in a user record, for every flag word of the inputs, each optional
\* field is decoded from the buffer when its bit is set and is None, with
\* no byte read, when its bit is clear; parse_blob never raises, the fields
\* have the values encoded for them in the order of their declaration, and
\* the decoder ends at the end of the buffer.
C18_FlagPresence ==
  \A status \in UserStatusNames :
    (/\ op = "parse_blob"
     /\ Len(data) >= 8
     /\ TagOf(data) = <<37764, 22721>>
     /\ data = UserInput(from_bytes_little(SubSeq(data, 5, 8)), status)) =>
      /\ outcome.raised = "None"
      /\ outcome.pblob # None
      /\ outcome.pblob[1].id = <<0, 1000>>
      /\ IF Bit(from_bytes_little(SubSeq(data, 5, 8)), 0)
         THEN outcome.pblob[1].access_hash = Some(<<<<3, 4>>, <<1, 2>>>>)
         ELSE outcome.pblob[1].access_hash = None
      /\ IF Bit(from_bytes_little(SubSeq(data, 5, 8)), 1)
         THEN StringIs(outcome.pblob[1].first_name, <<70>>)
         ELSE outcome.pblob[1].first_name = None
      /\ IF Bit(from_bytes_little(SubSeq(data, 5, 8)), 2)
         THEN StringIs(outcome.pblob[1].last_name, <<76, 97>>)
         ELSE outcome.pblob[1].last_name = None
      /\ IF Bit(from_bytes_little(SubSeq(data, 5, 8)), 3)
         THEN StringIs(outcome.pblob[1].username, <<85, 115, 114>>)
         ELSE outcome.pblob[1].username = None
      /\ IF Bit(from_bytes_little(SubSeq(data, 5, 8)), 4)
         THEN StringIs(outcome.pblob[1].phone, <<49, 50, 51, 52>>)
         ELSE outcome.pblob[1].phone = None
      /\ IF Bit(from_bytes_little(SubSeq(data, 5, 8)), 5)
         THEN /\ outcome.pblob[1].photo # None
              /\ outcome.pblob[1].photo[1].photo # None
              /\ outcome.pblob[1].photo[1].photo.sname
                   = "user_profile_photo_empty"
         ELSE outcome.pblob[1].photo = None
      /\ IF Bit(from_bytes_little(SubSeq(data, 5, 8)), 6)
         THEN /\ outcome.pblob[1].status # None
              /\ outcome.pblob[1].status[1].status # None
              /\ outcome.pblob[1].status[1].status.sname = status
         ELSE outcome.pblob[1].status = None
      /\ IF Bit(from_bytes_little(SubSeq(data, 5, 8)), 14)
         THEN outcome.pblob[1].bot_info_version = Some(<<0, 6>>)
         ELSE outcome.pblob[1].bot_info_version = None
      /\ IF Bit(from_bytes_little(SubSeq(data, 5, 8)), 18)
         THEN /\ outcome.pblob[1].restrictions # None
              /\ outcome.pblob[1].restrictions[1].restrictions_num = <<0, 1>>
              /\ Len(outcome.pblob[1].restrictions[1].restrictions_array) = 1
         ELSE outcome.pblob[1].restrictions = None
      /\ outcome.tell = Some(Len(data))
      /\ outcome.log = <<>>

C18_Witness ==
  /\ op = "parse_blob"
  /\ outcome.invoked = "user_struct"
  /\ data = UserInput(<<4, 16394>>, "user_status_offline")
  /\ outcome.pblob # None
  /\ outcome.pblob[1].access_hash = None
  /\ StringIs(outcome.pblob[1].first_name, <<70>>)
  /\ outcome.pblob[1].last_name = None
  /\ StringIs(outcome.pblob[1].username, <<85, 115, 114>>)
  /\ outcome.pblob[1].phone = None
  /\ outcome.pblob[1].bot_info_version = Some(<<0, 6>>)
  /\ outcome.pblob[1].restrictions # None
  /\ outcome.tell = Some(Len(data))

\* The to_id of a message whose tag 0xdeadbeef is in no peer shape, followed
\* by the 4 bytes of its body.
UnknownPeer == le32(<<57005, 48879>>) \o le32(<<0, 44>>)

\* C19 as stated: when the tag of the to_id of a message is not one of the
\* peer shapes, parse_blob raises nothing and returns the record, the
\* failure is logged, to_id is absent, and the fields after it (date,
\* message, UNPARSED) have the values encoded after the peer.
C19_UnknownNestedTagIsRecoverable ==
  \A f \in MessageFlagWords, t \in MessageTexts, u \in MessageTrailing :
    (op = "parse_blob" /\ data = MessageInput(f, UnknownPeer, t, u)) =>
      /\ outcome.raised = "None"
      /\ outcome.pblob # None
      /\ outcome.pblob[1].to_id.to_id = None
      /\ \E i \in 1..Len(outcome.log) :
           outcome.log[i].level \in {"error", "warning"}
      /\ outcome.pblob[1].date.epoch = <<24000, 0>>
      /\ outcome.pblob[1].message._value = t
      /\ outcome.pblob[1].UNPARSED = u

\* parse has stored an object for every row of every table of the database.
AllRowsParsed(db) ==
  \A i \in 1..Len(TableNames) :
    Len(db.tables[i])
      = (IF TableNames[i] \in db.cursor.missing THEN 0
         ELSE Len(db.cursor[TableNames[i]]))

\* C20 as stated: over a database whose rows hold whole records, blobs with
\* an unknown top-level tag and blobs that end in the middle of a
\* fixed-length primitive, no parse_blob call raises and no exception
\* leaves tdb.parse, and tdb.parse eventually returns with every row of
\* every table parsed.
C20_MalformedRecordNeverAborts ==
  /\ [](outcome.raised = "None" /\ teledb[1].pc # "raised")
  /\ <>(teledb[1].pc = "done" /\ AllRowsParsed(teledb[1]))

\* C27: a tstring or tbytes that decodes has consumed a multiple of 4 bytes,
\* the length prefix (1 byte in the short form, 4 in the long form), the
\* payload and at most 3 bytes of padding.
C27_ConsumedIsWordAligned ==
  Decoded =>
    /\ PaddingRead \in 0..3
    /\ outcome.tell[1] % 4 = 0

C27_Witness ==
  /\ Decoded
  /\ op = "tbytes_struct"
  /\ LongForm
  /\ PayloadLen = 255
  /\ outcome.tell = Some(260)

\* C28: when parse_blob returns a record of a shape that ends with UNPARSED,
\* the decoder has ended at the end of the input, UNPARSED is the tail of the
\* input that follows the last modelled field (the input without that tail
\* decodes to the same record with an empty UNPARSED), and the error 'Not
\* all data parsed' is not logged.
C28_UnparsedShapeConsumesAll ==
  (/\ op = "parse_blob"
   /\ outcome.raised = "None"
   /\ outcome.pblob # None
   /\ "UNPARSED" \in DOMAIN outcome.pblob[1]) =>
    LET u == outcome.pblob[1].UNPARSED
        head == Take(data, Len(data) - Len(u))
    IN /\ outcome.tell = Some(Len(data))
       /\ Len(u) <= Len(data)
       /\ data = head \o u
       /\ parse_blob(callbacks, head).pblob =
            Some([outcome.pblob[1] EXCEPT !.UNPARSED = <<>>])
       /\ Logged("error",
                 "Not all data parsed for object: %s [0x%x], input: %d, parsed: %d, missed: %s") = {}

C28_Witness ==
  /\ op = "parse_blob"
  /\ outcome.raised = "None"
  /\ outcome.invoked = "message_struct"
  /\ outcome.pblob # None
  /\ outcome.pblob[1].UNPARSED = <<9>>
  /\ outcome.pblob[1].from_id = None
  /\ outcome.tell = Some(Len(data))

\* C26: the record parse_blob returns for a tag carries, in sname, the name
\* the registry entry of that tag holds.
C26_SnameIsRegistryName ==
  (/\ op = "parse_blob"
   /\ outcome.raised = "None"
   /\ outcome.pblob # None) =>
    /\ "sname" \in DOMAIN outcome.pblob[1]
    /\ TagOf(data) \in RegistryKeys
    /\ outcome.pblob[1].sname = EntryOf(TagOf(data))[2]

\* C25: parse_blob never ends with the exception of a gate that names a
\* flag its shape's flag word does not declare; for every flag word an
\* encrypted_chat_requested buffer decodes to a record.
C25_GatesNameDeclaredFlags ==
  op = "parse_blob" =>
    /\ outcome.raised # "KeyError"
    /\ outcome.invoked = "encrypted_chat_requested_struct" =>
         (outcome.raised = "None" /\ outcome.pblob # None)

\* C22: a message_layer68 or message_service_layer48 buffer whose flag word
\* has has_from_id clear decodes to a record whose from_id_adjusted is the
\* user_id of to_id when to_id is a user peer (42 in the inputs), and
\* otherwise the channel_id of to_id with its sign flipped (-43).
C22_DerivedFromId ==
  \A p \in KnownPeers :
    (/\ op = "parse_blob"
     /\ data \in {MessageLayer68Input(<<0, 0>>, <<0, 0>>, p),
                  MessageServiceLayer48Input(<<0, 0>>, <<0, 0>>, p)}) =>
      /\ outcome.raised = "None"
      /\ outcome.pblob # None
      /\ "from_id_adjusted" \in DOMAIN outcome.pblob[1]
      /\ outcome.pblob[1].from_id_adjusted =
           (IF Take(p, 4) = le32(<<40369, 48237>>)
            THEN Some(42) ELSE Some(0 - 43))

\* The tables whose rows hold a blob.
BlobTables ==
  {"chats", "enc_chats", "media_v2", "messages", "sent_files_v2", "users",
   "user_settings"}

\* The keys in the file the first call of save_parsed_tables wrote for
\* table t of tdb db: those of the entries whose header, which holds the
\* key, is written.
DumpedKeys(db, t) ==
  LET keys(file) ==
        {file[k].key : k \in {j \in 1..Len(file) : file[j].header}}
  IN IF db.dumps = <<>> \/ db.dumps[1][TableNumber(t)] = None THEN {}
     ELSE keys(db.dumps[1][TableNumber(t)][1])

\* C21: once the run of the pipeline has got past save_parsed_tables, or an
\* exception has ended it, every row of the tables that hold a blob (of the
\* tables the database has) has an entry under its id in the parsed table
\* and in the file save_parsed_tables wrote for the table, whatever its
\* blob decoded to.
C21_RowsStoredAndDumped ==
  (teledb # None /\ teledb[1].pc \in {"saved", "timeline", "raised"}) =>
    \A t \in BlobTables \ teledb[1].cursor.missing :
      \A i \in 1..Len(teledb[1].cursor[t]) :
        /\ lookup(teledb[1], t, teledb[1].cursor[t][i][KeyColumn(t)]) # None
        /\ teledb[1].cursor[t][i][KeyColumn(t)] \in DumpedKeys(teledb[1], t)

\* The positions of the separators of a line of timeline.csv that are
\* outside the quoted fields.
Separators(line) ==
  {i \in 1..Len(line) :
     /\ line[i] = CSV_SEPARATOR
     /\ Cardinality({j \in 1..(i - 1) : line[j] = "\""}) % 2 = 0}

\* The number of fields of a line, and field number k of it.
FieldCount(line) == Cardinality(Separators(line)) + 1

FieldOf(line, k) ==
  LET ends == Separators(line) \cup {0, Len(line) + 1}
      nth(n) == CHOOSE i \in ends : Cardinality({j \in ends : j < i}) = n
  IN SubSeq(line, nth(k - 1) + 1, nth(k) - 1)

\* The epoch a timestamp of the timeline stands for, among the dates of
\* the rows.
EpochOf(timestamp) ==
  CHOOSE k \in 1..Len(RowDates) :
    to_date(int_value(RowDates[k])).val = timestamp

\* The data rows of a file that have a timestamp.
Dated(file) == {i \in 2..Len(file) : FieldOf(file[i], 1) # <<>>}

\* C23: in every file create_timeline has written, the data rows that have
\* a timestamp are in non-decreasing order of it, whatever table they come
\* from.
C23_TimelineIsChronological ==
  teledb # None =>
    \A f \in 1..Len(teledb[1].timelines) :
      \A i, j \in Dated(teledb[1].timelines[f]) :
        i < j => EpochOf(FieldOf(teledb[1].timelines[f][i], 1))
                   <= EpochOf(FieldOf(teledb[1].timelines[f][j], 1))

\* C24: in every file create_timeline has written, the header is the 13
\* column names, separated, and every data row splits into exactly 13
\* fields on the separators outside its quoted fields.
C24_ThirteenFields ==
  teledb # None =>
    \A f \in 1..Len(teledb[1].timelines) :
      /\ teledb[1].timelines[f][1]
           = <<"timestamp", ",", "source", ",", "id", ",", "type", ",",
               "from", ",", "from_id", ",", "to", ",", "to_id", ",",
               "dialog", ",", "dialog_type", ",", "content", ",", "media",
               ",", "extra">>
      /\ \A i \in 2..Len(teledb[1].timelines[f]) :
           FieldCount(teledb[1].timelines[f][i]) = 13

\* C29: a call of create_timeline leaves the parsed tables as they were,
\* and a second call of create_timeline, or of save_parsed_tables, writes
\* what the first one wrote.
C29_TimelineLeavesTables ==
  [][(teledb # None /\ teledb' # None) =>
       /\ Len(teledb'[1].timelines) > Len(teledb[1].timelines) =>
            teledb'[1].tables = teledb[1].tables
       /\ Len(teledb'[1].timelines) = 2 =>
            teledb'[1].timelines[2] = teledb'[1].timelines[1]
       /\ Len(teledb'[1].dumps) = 2 =>
            teledb'[1].dumps[2] = teledb'[1].dumps[1]]_vars

\* C30: in the first file create_timeline has written, the row of a
\* message that has reply data has the date of the message's own blob as
\* its timestamp, and has the views of the message's own blob in its last
\* field exactly when that blob has views.
C30_ReplyRowFromOwnBlob ==
  (teledb # None /\ teledb[1].timelines # <<>>) =>
    \A m \in 1..Len(teledb[1].cursor.messages) :
      \A i \in 2..Len(teledb[1].timelines[1]) :
        (/\ teledb[1].cursor.messages[m].replydata # None
         /\ FieldOf(teledb[1].timelines[1][i], 2) = <<"messages">>
         /\ FieldOf(teledb[1].timelines[1][i], 3)
              = format_int(teledb[1].cursor.messages[m].mid)) =>
          LET own(blob) ==
                /\ FieldOf(teledb[1].timelines[1][i], 1)
                     = <<utc_isoformat(blob.date.epoch)>>
                /\ (\E k \in 1..Len(teledb[1].timelines[1][i]) :
                      teledb[1].timelines[1][i][k] = "views")
                     <=> blob.flags.has_views
          IN own(parse_blob(tblob_init,
                            teledb[1].cursor.messages[m].data).pblob[1])
====
